---- MODULE Spec2Model ----
(***************************************************************************)
(* A model of the binary PSF reader of chwa/psfdata: the byte cursor       *)
(* (pypsf/memview.py), the section and value decoders                      *)
(* (pypsf/psfbin_sections.py, psfbin_types.py), the PSF-XL chunk walk      *)
(* (pypsf/psfxl.py) and the file facade (pypsf/psfbin.py).                 *)
(*                                                                         *)
(* The module holds several specifications over one set of variables;      *)
(* each specification drives one layer and leaves the variables of the     *)
(* other layers at their initial value.                                    *)
(*                                                                         *)
(* Integers read from bytes are kept as big-endian base-256 digit          *)
(* sequences without leading zeros (FromBytes), so that values of any      *)
(* width, 0xFFFFFFFF included, are represented exactly; Val turns a digit  *)
(* sequence that fits into a number.                                       *)
(***************************************************************************)
EXTENDS Integers, Sequences, FiniteSets, TLC

VARIABLES
    fileBytes,  \* cursor layer: the bytes object the first cursor is made over
    cur,        \* cursor layer: the cursor the next operation is applied to
    out,        \* cursor layer: the last operation, its arguments and its results
    xlData,     \* PSF-XL: the chunks of the sidecar read so far, by offset
    xlStart,    \* PSF-XL: the offset read_xl_signal was started at
    xlNext,     \* PSF-XL: nextpos
    xlXs,       \* PSF-XL: xs
    xlYs,       \* PSF-XL: ys
    xlVisited,  \* PSF-XL: the offsets read_xl_chunk was called with, in order
    xlPc,       \* PSF-XL: "walk", "done" or "error"
    xlResult,   \* PSF-XL: the waveform returned
    xlBytes,    \* PSF-XL scan: f._data of the DataBuffer
    xlPos,      \* PSF-XL scan: f._pos
    xlChar,     \* PSF-XL scan: c, the bytes the last f.read(1) returned
    xlDesc,     \* PSF-XL scan: desc_str, as the bytes decoded into it
    gdInput,    \* get_data: what the Value section was written from
    gdPc,       \* get_data: "loop", "returned" or "raised"
    gdSignals,  \* get_data: the sweep and the flattened traces (name, type)
    gdNpoints,  \* get_data: npoints
    gdData,     \* get_data: self._data of the SweepValueSection
    gdRead,     \* get_data: points_read
    gdSwept,    \* get_data: swept_values
    gdTraces,   \* get_data: trace_values, name -> array
    gdLog,      \* get_data: the chunks read so far (tag, window, valid, position)
    inFile,     \* facade: the file PsfBinFile is constructed on
    pc,         \* facade: "new", "get_data", "loaded" or "failed"
    obj,        \* facade: the attributes of the PsfBinFile object
    objLoaded,  \* facade: obj as it was when the constructor returned
    call,       \* facade: the last call made on the object and its result
    firstSig,   \* facade: per name, the result of the first get_signal
    tocIn,      \* TOC: what the file was written from
    tocPc,      \* TOC: the step of __init__ that comes next, "loaded" or "failed"
    tocObj,     \* TOC: self._data, self._toc, is_sweep and the sections read
    scDisk,     \* sidecar: the content of the .psfxl file on disk (a version)
    sc,         \* sidecar: the opens, the handle, the DataBuffer and the reads
    fnPc,       \* decoders: which decoder is applied, and whether it has run
    fnIn,       \* decoders: the input the decoder is applied to
    fnOut       \* decoders: what the decoder returned, or that it raised

cursorVars == <<fileBytes, cur, out>>
scanVars == <<xlBytes, xlPos, xlChar, xlDesc>>
xlVars == <<xlData, xlStart, xlNext, xlXs, xlYs, xlVisited, xlPc, xlResult, scanVars>>
gdVars == <<gdInput, gdPc, gdSignals, gdNpoints, gdData, gdRead, gdSwept, gdTraces, gdLog>>
facVars == <<inFile, pc, obj, objLoaded, call, firstSig>>
tocVars == <<tocIn, tocPc, tocObj>>
sidecarVars == <<scDisk, sc>>
fnVars == <<fnPc, fnIn, fnOut>>
vars == <<cursorVars, xlVars, gdVars, facVars, tocVars, sidecarVars, fnVars>>
\* What the actions of one layer leave alone.
notCursor == <<xlVars, gdVars, facVars, tocVars, sidecarVars, fnVars>>
notXl == <<cursorVars, gdVars, facVars, tocVars, sidecarVars, fnVars>>
notGd == <<cursorVars, xlVars, facVars, tocVars, sidecarVars, fnVars>>
notFac == <<cursorVars, xlVars, tocVars, sidecarVars, fnVars>>
notToc == <<cursorVars, xlVars, gdVars, facVars, sidecarVars, fnVars>>
notSidecar == <<cursorVars, xlVars, gdVars, facVars, tocVars, fnVars>>
notFn == <<cursorVars, xlVars, gdVars, facVars, tocVars, sidecarVars>>

----------------------------------------------------------------------------
(* Bounds of the cursor layer.                                             *)
FileLen == 8
MaxStrLen == 6
\* Operations are applied to a cursor whose claimed end lies at most
\* MaxDrift bytes past the end of the file.
MaxDrift == 2

----------------------------------------------------------------------------
(* Python helpers.                                                         *)

Min(a, b) == IF a < b THEN a ELSE b
Max(a, b) == IF a > b THEN a ELSE b

\* slice.indices(n) for one bound of a slice with step 1: a negative index
\* counts from the end, and the result is clamped to 0..n.
ClampIndex(i, n) == IF i < 0 THEN Max(i + n, 0) ELSE Min(i, n)

\* mv[start:stop]
PySlice(mv, start, stop) ==
    LET s == ClampIndex(start, Len(mv))
        e == ClampIndex(stop, Len(mv))
    IN  SubSeq(mv, s + 1, e)

\* mv[n:] and mv[:n]
PyFrom(mv, n) == PySlice(mv, n, Len(mv))
PyUpto(mv, n) == PySlice(mv, 0, n)

RECURSIVE StripZeros(_)
StripZeros(bs) ==
    IF bs = <<>> THEN <<>>
    ELSE IF Head(bs) = 0 THEN StripZeros(Tail(bs))
    ELSE bs

\* int.from_bytes(bs): big-endian, unsigned, of however many bytes bs holds
\* (none: 0). The value is the digit sequence without leading zeros.
FromBytes(bs) == StripZeros(bs)

\* The number a digit sequence stands for (at most 4 digits, below 2^31).
RECURSIVE Val(_)
Val(d) == IF d = <<>> THEN 0 ELSE 256 * Val(SubSeq(d, 1, Len(d) - 1)) + d[Len(d)]

FitsInt(d) == Len(d) <= 3 \/ (Len(d) = 4 /\ d[1] < 128)

\* bytes.decode(): UTF-8. The byte alphabet of the model holds ASCII bytes
\* and 0xFF, which no UTF-8 text contains; ASCII bytes decode to their own
\* code points.
Decode(bs) ==
    IF \A i \in 1..Len(bs) : bs[i] < 128
    THEN [ok |-> TRUE, s |-> bs]
    ELSE [ok |-> FALSE, s |-> <<>>]

----------------------------------------------------------------------------
(* MemoryViewAbs: a memoryview and the offset it claims in the original.   *)

MemoryViewAbs(data, abspos) == [abspos |-> abspos, mv |-> data]

\* A slice that takes the end of the slice for its position.
GetItemStopPos(c, start, stop) ==
    MemoryViewAbs(PySlice(c.mv, start, stop),
                  c.abspos + ClampIndex(stop, Len(c.mv)))

\* __getitem__ with a slice key
GetItem(c, start, stop) ==
    MemoryViewAbs(PySlice(c.mv, start, stop),
                  c.abspos + ClampIndex(start, Len(c.mv)))

\* c[n:]
GetItemFrom(c, n) == GetItem(c, n, Len(c.mv))

Failed(c) == [ok |-> FALSE, val |-> <<>>, c |-> c, res |-> <<>>]
Returned(v, c) == [ok |-> TRUE, val |-> v, c |-> c, res |-> <<>>]

SplitAssert(c, rel_pos) == 0 <= rel_pos /\ rel_pos <= Len(c.mv)

\* The right part of a split given the position of the left part.
SplitRightNoOffset(c, rel_pos) == MemoryViewAbs(PyFrom(c.mv, rel_pos), c.abspos)
\* self[rel_pos:]
SplitRight(c, rel_pos) == MemoryViewAbs(PyFrom(c.mv, rel_pos), c.abspos + rel_pos)

split_at_absolute(c, abs_pos) ==
    LET rel_pos == abs_pos - c.abspos
    IN  IF SplitAssert(c, rel_pos)
        THEN [ok |-> TRUE, val |-> <<>>, c |-> c,
              res |-> << MemoryViewAbs(PyUpto(c.mv, rel_pos), c.abspos),
                         SplitRight(c, rel_pos) >>]
        ELSE Failed(c)

\* split_at_absolute with the position as a digit sequence: a position of
\* 2^31 or more lies past every cursor of the model, so the assertion fails.
split_at_digits(c, d) ==
    IF FitsInt(d) THEN split_at_absolute(c, Val(d)) ELSE Failed(c)

\* get_int32(pos)
get_int32(c, pos) ==
    LET p == IF pos < 0 THEN pos + Len(c.mv) ELSE pos
    IN  FromBytes(PySlice(c.mv, p, p + 4))

Consume(c, n) == MemoryViewAbs(PyFrom(c.mv, n), c.abspos + n)

read_bytes(c, n, peek) ==
    Returned(PyUpto(c.mv, n), IF peek THEN c ELSE Consume(c, n))

read_int8(c, peek) ==
    Returned(FromBytes(c.mv), IF peek THEN c ELSE Consume(c, 1))

read_int32(c, peek) ==
    Returned(FromBytes(PyUpto(c.mv, 4)), IF peek THEN c ELSE Consume(c, 4))

\* struct.unpack(">d", ..) raises unless it is handed exactly 8 bytes; the
\* value is kept as its 8 bytes.
read_double(c, peek) ==
    IF Len(PyUpto(c.mv, 8)) # 8 THEN Failed(c)
    ELSE Returned(PyUpto(c.mv, 8), IF peek THEN c ELSE Consume(c, 8))

StringPad(length) == (4 - length) % 4

read_string(c) ==
    LET r == read_int32(c, FALSE)
        length == Val(r.val)
        dec == Decode(PyUpto(r.c.mv, length))
    IN  IF ~dec.ok THEN Failed(r.c)
        ELSE [ok |-> TRUE, val |-> dec.s, c |-> Consume(r.c, length + StringPad(length)),
              res |-> <<>>]

----------------------------------------------------------------------------
(* The cursor layer as a state machine: one action per cursor operation,   *)
(* applied to cur; UseDerived continues with a cursor the last operation   *)
(* returned.                                                               *)

Payload(n) == [i \in 1..n |-> 64 + i]

\* The byte strings the first cursor is made over: a length-prefixed string
\* (prefix 0..MaxStrLen) over a payload of distinct ASCII bytes, the last
\* byte possibly 0xFF.
InputFiles ==
    { <<0, 0, 0, l>> \o [Payload(FileLen - 4) EXCEPT ![FileLen - 4] = last] :
        l \in 0..MaxStrLen, last \in {64 + FileLen - 4, 255} }

NoOp == [op |-> "none", pre |-> MemoryViewAbs(<<>>, 0), args |-> <<>>,
         ok |-> TRUE, val |-> <<>>, res |-> <<>>]

Record(op, args, r) ==
    [op |-> op, pre |-> cur, args |-> args, ok |-> r.ok, val |-> r.val, res |-> r.res]

CursorStart ==
    /\ fileBytes \in InputFiles
    /\ cur = MemoryViewAbs(fileBytes, 0)
    /\ out = NoOp

CursorIdle ==
    /\ fileBytes = <<>>
    /\ cur = MemoryViewAbs(<<>>, 0)
    /\ out = NoOp

Live == cur.abspos + Len(cur.mv) <= FileLen + MaxDrift

\* The arguments the operations are tried with.
SliceBounds == {-1, 0, 1, 4, FileLen - 1, FileLen + 1}
ReadSizes == {0, 1, 4, FileLen + 1}
IntPositions == {-4, -1, 0, 1, 4, FileLen}

Slice ==
    \E start \in SliceBounds, stop \in SliceBounds :
        /\ Live
        /\ out' = [op |-> "slice", pre |-> cur, args |-> <<start, stop>>, ok |-> TRUE,
                   val |-> <<>>, res |-> <<GetItem(cur, start, stop)>>]
        /\ UNCHANGED <<fileBytes, cur, notCursor>>

SplitPositions == (0..FileLen) \cup {cur.abspos + k : k \in -1..Len(cur.mv) + 1}

SplitAtAbsolute ==
    \E p \in SplitPositions :
        /\ Live
        /\ out' = Record("split_at_absolute", <<p>>, split_at_absolute(cur, p))
        /\ UNCHANGED <<fileBytes, cur, notCursor>>

GetInt32 ==
    \E pos \in IntPositions :
        /\ Live
        /\ out' = Record("get_int32", <<pos>>, Returned(get_int32(cur, pos), cur))
        /\ UNCHANGED <<fileBytes, cur, notCursor>>

ReadBytes ==
    \E n \in ReadSizes, peek \in BOOLEAN :
        LET r == read_bytes(cur, n, peek)
        IN  /\ Live
            /\ out' = Record("read_bytes", <<n, peek>>, r)
            /\ cur' = r.c
            /\ UNCHANGED <<fileBytes, notCursor>>

ReadInt8 ==
    \E peek \in BOOLEAN :
        LET r == read_int8(cur, peek)
        IN  /\ Live
            /\ out' = Record("read_int8", <<peek>>, r)
            /\ cur' = r.c
            /\ UNCHANGED <<fileBytes, notCursor>>

ReadInt32 ==
    \E peek \in BOOLEAN :
        LET r == read_int32(cur, peek)
        IN  /\ Live
            /\ out' = Record("read_int32", <<peek>>, r)
            /\ cur' = r.c
            /\ UNCHANGED <<fileBytes, notCursor>>

ReadDouble ==
    \E peek \in BOOLEAN :
        LET r == read_double(cur, peek)
        IN  /\ Live
            /\ out' = Record("read_double", <<peek>>, r)
            /\ cur' = r.c
            /\ UNCHANGED <<fileBytes, notCursor>>

ReadString ==
    LET r == read_string(cur)
    IN  /\ Live
        /\ out' = Record("read_string", <<>>, r)
        /\ cur' = r.c
        /\ UNCHANGED <<fileBytes, notCursor>>

UseDerived ==
    \E k \in 1..Len(out.res) :
        /\ Live
        /\ cur' = out.res[k]
        /\ out' = [NoOp EXCEPT !.pre = cur]
        /\ UNCHANGED <<fileBytes, notCursor>>

CursorStep ==
    \/ Slice
    \/ SplitAtAbsolute
    \/ GetInt32
    \/ ReadBytes
    \/ ReadInt8
    \/ ReadInt32
    \/ ReadDouble
    \/ ReadString
    \/ UseDerived

----------------------------------------------------------------------------
(* C8: every cursor derived from a MemoryViewAbs over S bytes satisfies    *)
(* abspos + len <= S, whatever slices, splits and reads (short reads       *)
(* included) produced it.                                                  *)
C8_CursorWithinFile ==
    \A c \in {cur} \cup {out.res[k] : k \in 1..Len(out.res)} :
        c.abspos + Len(c.mv) <= Len(fileBytes)

(* C9: split_at_absolute(abs_pos) with abs_pos inside the cursor returns   *)
(* (left, right) with len(left) + len(right) = len(c), len(left) =         *)
(* abs_pos - c.abspos, left.abspos = c.abspos, right.abspos = abs_pos;     *)
(* with abs_pos outside the cursor it fails and returns no cursors.        *)
C9_SplitAtAbsolute ==
    out.op = "split_at_absolute" =>
        LET c == out.pre
            p == out.args[1]
        IN  IF c.abspos <= p /\ p <= c.abspos + Len(c.mv)
            THEN /\ out.ok
                 /\ Len(out.res) = 2
                 /\ Len(out.res[1].mv) + Len(out.res[2].mv) = Len(c.mv)
                 /\ Len(out.res[1].mv) = p - c.abspos
                 /\ out.res[1].abspos = c.abspos
                 /\ out.res[2].abspos = p
            ELSE ~out.ok /\ out.res = <<>>

C9_Witness ==
    /\ out.op = "split_at_absolute"
    /\ out.ok
    /\ out.pre.abspos > 0
    /\ Len(out.res[1].mv) > 0
    /\ Len(out.res[2].mv) > 0

(* C10: a read_string that returns a string has consumed                   *)
(* 4 + L + ((-L) mod 4) bytes, a multiple of 4, L being the int32 length   *)
(* prefix: len(c) went down and c.abspos went up by that number, and the   *)
(* string is the decoding of the L bytes after the prefix.                 *)
C10_ReadStringConsumed ==
    (out.op = "read_string" /\ out.ok) =>
        LET L == Val(FromBytes(SubSeq(out.pre.mv, 1, Min(4, Len(out.pre.mv)))))
            n == 4 + L + ((-L) % 4)
        IN  /\ n % 4 = 0
            /\ Len(out.pre.mv) - Len(cur.mv) = n
            /\ cur.abspos - out.pre.abspos = n
            /\ Len(out.val) = L
            /\ out.val = SubSeq(out.pre.mv, 5, 4 + L)

\* The length prefix read_string reads from a cursor, and the bytes that
\* remain after the prefix.
PrefixOf(c) == Val(FromBytes(PyUpto(c.mv, 4)))
AfterPrefix(c) == Max(Len(c.mv) - 4, 0)

(* C11: read_string fails, and returns no string, whenever its length      *)
(* prefix L is negative or larger than the number of bytes that remain in  *)
(* the cursor after the 4-byte prefix.                                     *)
C11_BadLengthFails ==
    (/\ out.op = "read_string"
     /\ (PrefixOf(out.pre) < 0 \/ PrefixOf(out.pre) > AfterPrefix(out.pre)))
        => (~out.ok /\ out.val = <<>>)

\* The bytes a read of n bytes is due, when the cursor holds that many.
Leading(c, n) == SubSeq(c.mv, 1, n)

(* C12: read_int32, read_int8 and read_double fail instead of returning a  *)
(* value when fewer than 4, 1 and 8 bytes remain; when enough remain they  *)
(* return the big-endian value of exactly those leading bytes and advance  *)
(* the cursor by 4, 1 and 8.                                               *)
C12_ReadsExactOrFail ==
    \A op \in {"read_int32", "read_int8", "read_double"} :
        (out.op = op /\ ~out.args[1]) =>
            LET n == CASE op = "read_int32" -> 4
                       [] op = "read_int8" -> 1
                       [] op = "read_double" -> 8
                c == out.pre
            IN  IF Len(c.mv) < n THEN ~out.ok
                ELSE /\ out.ok
                     /\ out.val = (IF op = "read_double" THEN Leading(c, n)
                                   ELSE FromBytes(Leading(c, n)))
                     /\ cur.abspos = c.abspos + n
                     /\ cur.mv = SubSeq(c.mv, n + 1, Len(c.mv))

(* C13: for 0 <= start <= stop <= len(c), c[start:stop] is a new cursor of *)
(* length stop - start whose abspos is c.abspos + start and whose bytes    *)
(* are bytes start..stop-1 of c, and c itself is unchanged.                *)
C13_SliceKeepsOffset ==
    (/\ out.op = "slice"
     /\ 0 <= out.args[1]
     /\ out.args[1] <= out.args[2]
     /\ out.args[2] <= Len(out.pre.mv))
        => /\ Len(out.res) = 1
           /\ Len(out.res[1].mv) = out.args[2] - out.args[1]
           /\ out.res[1].abspos = out.pre.abspos + out.args[1]
           /\ \A i \in 1..Len(out.res[1].mv) :
                  out.res[1].mv[i] = out.pre.mv[out.args[1] + i]
           /\ cur = out.pre

C13_Witness ==
    /\ out.op = "slice"
    /\ out.pre.abspos > 0
    /\ out.args[1] = 1
    /\ out.args[2] = 4
    /\ Len(out.pre.mv) > 4
    /\ Len(out.res[1].mv) = 3

(* C14: the reads called with peek=True, and get_int32(pos) for any pos (a *)
(* negative pos counted from the end), return what the consuming read at   *)
(* that position returns, and leave the cursor's length and abspos as they *)
(* were.                                                                   *)
C14_PeekIsReadWithoutAdvance ==
    /\ (out.op \in {"read_int8", "read_int32", "read_double"} /\ out.args[1])
           => LET r == CASE out.op = "read_int8" -> read_int8(out.pre, FALSE)
                         [] out.op = "read_int32" -> read_int32(out.pre, FALSE)
                         [] out.op = "read_double" -> read_double(out.pre, FALSE)
              IN  out.ok = r.ok /\ out.val = r.val /\ cur = out.pre
    /\ (out.op = "read_bytes" /\ out.args[2])
           => /\ out.val = read_bytes(out.pre, out.args[1], FALSE).val
              /\ cur = out.pre
    /\ out.op = "get_int32"
           => /\ out.val = read_int32(GetItemFrom(out.pre, out.args[1]), FALSE).val
              /\ cur = out.pre

----------------------------------------------------------------------------
(* PSF-XL: read_xl_signal walks the chunks of the sidecar from the last to *)
(* the first. The sidecar is input: the chunk at an offset is drawn when   *)
(* the walk first reads it and is the same at every later read.            *)

\* Bounds of the PSF-XL layer.
MaxChunks == 2
MaxRun == 2
MaxVisits == 3

XlOffsets == 0..MaxChunks - 1
Type22 == 34
TypeA2 == 162
TypeA0 == 160
Type20 == 32
XlTypes == {Type22, TypeA2, TypeA0, Type20}

\* What a chunk at an offset can hold: whether the marker matches
\* xl_marker, its previous and type fields, whether csize is 8, and what
\* the x run and the y run decode to (not ok: blosc.decompress raises;
\* otherwise the number of doubles).
BadRun == [ok |-> FALSE, n |-> 0]
RunOutcomes == {BadRun} \cup {[ok |-> TRUE, n |-> k] : k \in 1..MaxRun}
XlChunks ==
    { [read |-> TRUE, marker |-> FALSE, previous |-> -1, type |-> Type20,
       csize8 |-> FALSE, x |-> BadRun, y |-> BadRun] }
    \cup
    { [read |-> TRUE, marker |-> TRUE, previous |-> -1, type |-> Type20,
       csize8 |-> FALSE, x |-> BadRun, y |-> BadRun] }
    \cup
    [read : {TRUE}, marker : {TRUE}, previous : XlOffsets \cup {-1},
     type : XlTypes \ {TypeA0}, csize8 : {FALSE}, x : RunOutcomes \ {BadRun},
     y : RunOutcomes]
    \cup
    [read : {TRUE}, marker : {TRUE}, previous : XlOffsets \cup {-1},
     type : {TypeA0}, csize8 : BOOLEAN, x : RunOutcomes \ {BadRun},
     y : RunOutcomes \ {BadRun}]

Unread == [read |-> FALSE, marker |-> FALSE, previous |-> -1, type |-> Type20,
           csize8 |-> FALSE, x |-> BadRun, y |-> BadRun]

\* The samples of a run of n doubles at an offset; x and y samples differ.
XSamples(offset, n) == [i \in 1..n |-> 10 * offset + i]
YSamples(offset, n) == [i \in 1..n |-> 100 + 10 * offset + i]

XlRaise == [ok |-> FALSE, x |-> <<>>, scalar |-> FALSE, y |-> <<>>, nextpos |-> -1]

\* read_xl_chunk: an error, or x_value, y_value and nextpos. y_value is a
\* plain float (scalar) for a chunk of type 0xa0 with csize 8.
read_xl_chunk(ch, offset) ==
    IF ~ch.marker THEN XlRaise
    ELSE IF ~ch.x.ok THEN XlRaise
    ELSE IF ch.type = TypeA0
    THEN IF ch.csize8
         THEN [ok |-> TRUE, x |-> XSamples(offset, ch.x.n), scalar |-> TRUE,
               y |-> YSamples(offset, 1), nextpos |-> ch.previous]
         ELSE [ok |-> TRUE, x |-> XSamples(offset, ch.x.n), scalar |-> FALSE,
               y |-> YSamples(offset, ch.y.n), nextpos |-> ch.previous]
    ELSE IF ~ch.y.ok THEN XlRaise
    ELSE [ok |-> TRUE, x |-> XSamples(offset, ch.x.n), scalar |-> FALSE,
          y |-> YSamples(offset, ch.y.n), nextpos |-> ch.previous]

RECURSIVE Concatenate(_)
Concatenate(arrays) ==
    IF arrays = <<>> THEN <<>> ELSE Head(arrays) \o Concatenate(Tail(arrays))

\* The lists as collected, the last chunk first.
NotReversed(arrays) == arrays
Reversed(arrays) == [i \in 1..Len(arrays) |-> arrays[Len(arrays) + 1 - i]]

ScanIdle ==
    /\ xlBytes = <<>>
    /\ xlPos = 0
    /\ xlChar = <<>>
    /\ xlDesc = <<>>

XlIdle ==
    /\ xlData = [o \in XlOffsets |-> Unread]
    /\ xlStart = -1
    /\ xlNext = -1
    /\ xlXs = <<>>
    /\ xlYs = <<>>
    /\ xlVisited = <<>>
    /\ xlPc = "idle"
    /\ xlResult = <<>>
    /\ ScanIdle

XlStart ==
    /\ xlData = [o \in XlOffsets |-> Unread]
    /\ xlStart \in XlOffsets \cup {-1}
    /\ xlNext = xlStart
    /\ xlXs = <<>>
    /\ xlYs = <<>>
    /\ xlVisited = <<>>
    /\ xlPc = "walk"
    /\ xlResult = <<>>
    /\ ScanIdle

\* One iteration of the loop of read_xl_signal: read_xl_chunk at nextpos.
XlReadChunk ==
    /\ xlPc = "walk"
    /\ xlNext # -1
    /\ Len(xlVisited) < MaxVisits
    /\ \E ch \in XlChunks :
        /\ xlData[xlNext].read => ch = xlData[xlNext]
        /\ xlData' = [xlData EXCEPT ![xlNext] = ch]
        /\ xlVisited' = Append(xlVisited, xlNext)
        /\ LET r == read_xl_chunk(ch, xlNext)
           IN  IF r.ok
               THEN /\ xlXs' = Append(xlXs, r.x)
                    /\ xlYs' = Append(xlYs, [scalar |-> r.scalar, a |-> r.y])
                    /\ xlNext' = r.nextpos
                    /\ UNCHANGED <<xlPc, xlResult>>
               ELSE /\ xlPc' = "error"
                    /\ UNCHANGED <<xlXs, xlYs, xlNext, xlResult>>
    /\ UNCHANGED <<xlStart, scanVars, notXl>>

\* The end of read_xl_signal: np.concatenate of the reversed lists (which
\* raises for an empty list and for a list holding a plain float), then
\* Waveform, whose __post_init__ asserts len(t) == len(y).
XlWaveform(xs, ys) ==
    LET x == Concatenate(Reversed(xs))
        y == Concatenate(Reversed([i \in 1..Len(ys) |-> ys[i].a]))
    IN  IF \/ xs = <<>>
           \/ \E i \in 1..Len(ys) : ys[i].scalar
           \/ Len(x) # Len(y)
        THEN [ok |-> FALSE, x |-> <<>>, y |-> <<>>]
        ELSE [ok |-> TRUE, x |-> x, y |-> y]

XlFinish ==
    /\ xlPc = "walk"
    /\ xlNext = -1
    /\ LET w == XlWaveform(xlXs, xlYs)
       IN  IF ~w.ok
           THEN /\ xlPc' = "error"
                /\ UNCHANGED xlResult
           ELSE /\ xlPc' = "done"
                /\ xlResult' = [x |-> w.x, y |-> w.y]
    /\ UNCHANGED <<xlData, xlStart, xlNext, xlXs, xlYs, xlVisited, scanVars, notXl>>

XlStep ==
    \/ XlReadChunk
    \/ XlFinish

(* C5: read_xl_signal visits the chunks by following previous from the     *)
(* starting offset until -1 and returns x and y as the concatenation of    *)
(* the per-chunk arrays in the reverse of the visiting order, with         *)
(* len(x) = len(y).                                                        *)
RECURSIVE C5_ChainArrays(_, _)
C5_ChainArrays(k, isX) ==
    IF k = 0 THEN <<>>
    ELSE LET o == xlVisited[k]
         IN  (IF isX THEN XSamples(o, xlData[o].x.n) ELSE YSamples(o, xlData[o].y.n))
             \o C5_ChainArrays(k - 1, isX)

C5_ReverseChain ==
    xlPc = "done" =>
        LET n == Len(xlVisited)
        IN  /\ n >= 1
            /\ xlVisited[1] = xlStart
            /\ \A i \in 1..n - 1 : xlVisited[i + 1] = xlData[xlVisited[i]].previous
            /\ xlData[xlVisited[n]].previous = -1
            /\ xlResult.x = C5_ChainArrays(n, TRUE)
            /\ xlResult.y = C5_ChainArrays(n, FALSE)
            /\ Len(xlResult.x) = Len(xlResult.y)

C5_Witness ==
    /\ xlPc = "done"
    /\ Len(xlVisited) >= 2
    /\ xlVisited[1] # xlVisited[2]
    /\ Len(xlResult.x) >= 3

(* C17: read_xl_chunk fails, without decompressing any payload, for every *)
(* chunk whose type is none of 0x22, 0xa2 and 0xa0, 0x20 among them: the   *)
(* walk stops in error at such a chunk and takes no array from it.         *)
C17_UnknownTypeRejected ==
    \A i \in 1..Len(xlVisited) :
        LET ch == xlData[xlVisited[i]]
        IN  (ch.marker /\ ch.type \notin {Type22, TypeA2, TypeA0})
                => /\ i = Len(xlVisited)
                   /\ xlPc = "error"
                   /\ Len(xlXs) < Len(xlVisited)
                   /\ Len(xlYs) < Len(xlVisited)

----------------------------------------------------------------------------
(* PSF-XL: the control of read_xl_signal and of the marker scan of         *)
(* read_xl_chunk, byte by byte. xs, ys and i take no part in any condition *)
(* of the two loops and are left to the walk above. What the descriptor    *)
(* between two NUL bytes parses to is drawn when the scan first delivers   *)
(* it, as the chunk at that offset.                                        *)

\* Bound of the scan: the longest sidecar.
SidecarLen == 3

\* The bytes of a sidecar: NUL, a colon, and a byte that is not UTF-8.
SidecarContents ==
    UNION {[1..n -> {0, 58, 255}] : n \in 0..SidecarLen}

\* DataBuffer.read: d = self._data[self._pos: self._pos+nbytes]
DataBufferRead(data, pos, nbytes) == PySlice(data, pos, pos + nbytes)

\* f._pos after a seek or a read. Python counts on without end; a read
\* returns b'' at every position from len(data) on, and the model keeps
\* the first of these positions for all of them.
PosOf(data, pos) == Min(pos, Len(data))

\* bytes.decode() raises for a byte that is not UTF-8.
Decodes(c) == \A i \in 1..Len(c) : c[i] < 128

XlRunStart ==
    /\ xlData = [o \in XlOffsets |-> Unread]
    /\ xlStart \in XlOffsets \cup {-1}
    /\ xlNext = xlStart
    /\ xlXs = <<>>
    /\ xlYs = <<>>
    /\ xlVisited = <<>>
    /\ xlPc = "loop"
    /\ xlResult = <<>>
    /\ xlBytes \in SidecarContents
    /\ xlPos = 0
    /\ xlChar = <<>>
    /\ xlDesc = <<>>

\* while nextpos != -1: read_xl_chunk(f, nextpos) begins: f.seek(offset + 1),
\* desc_str = "".
XlEnterChunk ==
    /\ xlPc = "loop"
    /\ xlNext # -1
    /\ xlPos' = PosOf(xlBytes, xlNext + 1)
    /\ xlDesc' = <<>>
    /\ xlPc' = "scan_read"
    /\ UNCHANGED <<xlData, xlStart, xlNext, xlXs, xlYs, xlVisited, xlResult,
                   xlBytes, xlChar, notXl>>

\* c := f.read(1)
XlScanRead ==
    /\ xlPc = "scan_read"
    /\ xlChar' = DataBufferRead(xlBytes, xlPos, 1)
    /\ xlPos' = PosOf(xlBytes, xlPos + 1)
    /\ xlPc' = "scan_test"
    /\ UNCHANGED <<xlData, xlStart, xlNext, xlXs, xlYs, xlVisited, xlResult,
                   xlBytes, xlDesc, notXl>>

\* c != b'\0' and, in the body of the loop, desc_str += c.decode()
XlScanTest ==
    /\ xlPc = "scan_test"
    /\ IF xlChar = <<0>>
       THEN /\ xlPc' = "parse"
            /\ UNCHANGED xlDesc
       ELSE IF Decodes(xlChar)
       THEN /\ xlDesc' = xlDesc \o xlChar
            /\ xlPc' = "scan_read"
       ELSE /\ xlPc' = "error"
            /\ UNCHANGED xlDesc
    /\ UNCHANGED <<xlData, xlStart, xlNext, xlXs, xlYs, xlVisited, xlResult,
                   xlBytes, xlPos, xlChar, notXl>>

\* The rest of read_xl_chunk, from xl_marker.match on, and the assignment
\* of its result to nextpos. An empty descriptor does not match.
XlParseChunk ==
    /\ xlPc = "parse"
    /\ \E ch \in XlChunks :
        /\ xlData[xlNext].read => ch = xlData[xlNext]
        /\ ch.marker => xlDesc # <<>>
        /\ xlData' = [xlData EXCEPT ![xlNext] = ch]
        /\ LET r == read_xl_chunk(ch, xlNext)
           IN  IF r.ok
               THEN /\ xlNext' = r.nextpos
                    /\ xlPc' = "loop"
               ELSE /\ xlPc' = "error"
                    /\ UNCHANGED xlNext
    /\ UNCHANGED <<xlStart, xlXs, xlYs, xlVisited, xlResult, scanVars, notXl>>

\* The loop is left: np.concatenate and Waveform return or raise.
XlRunReturn ==
    /\ xlPc = "loop"
    /\ xlNext = -1
    /\ xlPc' \in (IF xlStart = -1 THEN {"error"} ELSE {"done", "error"})
    /\ UNCHANGED <<xlData, xlStart, xlNext, xlXs, xlYs, xlVisited, xlResult,
                   scanVars, notXl>>

XlRunStep ==
    \/ XlEnterChunk
    \/ XlScanRead
    \/ XlScanTest
    \/ XlParseChunk
    \/ XlRunReturn

(* C18: for every sidecar content and start offset read_xl_signal          *)
(* terminates, by returning or by failing; a marker with no NUL before the *)
(* end of the data and previous offsets that form a cycle are among them.  *)
C18_Terminates == <>(xlPc \in {"done", "error"})

----------------------------------------------------------------------------
(* Ordered mappings (Python dicts): a sequence of (k, v) in insertion      *)
(* order; assigning to a key that is present replaces its value in place.  *)

DictHas(d, k) == \E i \in 1..Len(d) : d[i].k = k
DictGet(d, k) == d[CHOOSE i \in 1..Len(d) : d[i].k = k].v
DictSet(d, k, v) ==
    IF DictHas(d, k)
    THEN [i \in 1..Len(d) |-> IF d[i].k = k THEN [k |-> k, v |-> v] ELSE d[i]]
    ELSE Append(d, [k |-> k, v |-> v])
DictKeys(d) == [i \in 1..Len(d) |-> d[i].k]
DictValues(d) == [i \in 1..Len(d) |-> d[i].v]

----------------------------------------------------------------------------
(* Types and items.                                                        *)

INT8 == 1
INT32 == 5
DOUBLE == 11
COMPLEXDOUBLE == 12
STRUCT == 16

\* dtype.itemsize of SignalDef.dtype
ItemSize(type) ==
    CASE type = INT8 -> 1
      [] type = INT32 -> 4
      [] type = DOUBLE -> 8
      [] type = COMPLEXDOUBLE -> 16

Zeros(n) == [i \in 1..n |-> 0]

\* A number stored in a float64 array, as the 8 bytes of the double it was
\* read from or, for an integer item, as its value; 0.0 and 0 are Zero. A
\* complex item stored in a float64 array keeps its real part.
Zero == [k |-> "zero", b |-> <<>>]
Number(type, bytes) ==
    LET b == IF type = COMPLEXDOUBLE THEN SubSeq(bytes, 1, 8) ELSE bytes
    IN  IF b = Zeros(Len(b)) THEN Zero
        ELSE IF type \in {INT8, INT32} THEN [k |-> "int", b |-> StripZeros(b)]
        ELSE [k |-> "f8", b |-> b]

\* np.zeros(n)
NpZeros(n) == [i \in 1..n |-> Zero]

\* np.frombuffer(mv, count=count, dtype=big-endian type): raises when the
\* buffer holds fewer than count items.
FromBuffer(mv, count, type) ==
    IF Len(mv) < count * ItemSize(type) THEN [ok |-> FALSE, a |-> <<>>]
    ELSE [ok |-> TRUE,
          a |-> [i \in 1..count |->
                    Number(type, SubSeq(mv, (i - 1) * ItemSize(type) + 1,
                                        i * ItemSize(type)))]]

\* array[start:start+count] = data, for an array of n items: numpy raises
\* when data (of count > 1 items) does not fit the slice; one item is
\* broadcast to whatever the slice holds.
SliceAssign(array, start, data) ==
    LET n == Len(array)
        count == Len(data)
        width == Max(Min(start + count, n) - Min(start, n), 0)
    IN  IF width # count /\ count # 1 THEN [ok |-> FALSE, a |-> array]
        ELSE [ok |-> TRUE,
              a |-> [i \in 1..n |->
                        IF i > start /\ i <= start + width
                        THEN data[IF count = 1 THEN 1 ELSE i - start]
                        ELSE array[i]]]

\* c[d:] for d a digit sequence: an index of 2^31 or more lies past the end.
GetItemFromDigits(c, d) ==
    IF FitsInt(d) THEN GetItemFrom(c, Val(d)) ELSE GetItemFrom(c, Len(c.mv))

Pad4(d) == Zeros(4 - Len(d)) \o d

----------------------------------------------------------------------------
(* Sections.                                                               *)

SectionTag == <<21>>
EndSentinel == <<255, 255, 255, 255>>
WindowTag == <<20>>

NoSection == [ok |-> FALSE, endpos |-> <<>>, data |-> MemoryViewAbs(<<>>, 0),
              tail |-> MemoryViewAbs(<<>>, 0)]

\* A section that takes all that follows its two int32s for its body and
\* for its tail.
SectionInit_unsplit(data) ==
    LET t == read_int32(data, FALSE)
        e == read_int32(t.c, FALSE)
    IN  IF t.val # SectionTag THEN NoSection
        ELSE [ok |-> TRUE, endpos |-> e.val, data |-> e.c, tail |-> e.c]
\* Section.__init__: the tag, the end offset, then the split of what
\* follows at the end offset.
SectionInit(data) ==
    LET t == read_int32(data, FALSE)
        e == read_int32(t.c, FALSE)
        sp == split_at_digits(e.c, e.val)
    IN  IF t.val # SectionTag \/ ~sp.ok THEN NoSection
        ELSE [ok |-> TRUE, endpos |-> e.val, data |-> sp.res[1], tail |-> sp.res[2]]

\* The windowed branch of SweepValueSection.__init__: the 0x14 tag, the
\* size of the zero pad, the check that the pad is zero, and its removal.
RemoveZeroPad(data) ==
    LET t == read_int32(data, FALSE)
        z == read_int32(t.c, FALSE)
    IN  IF t.val # WindowTag THEN [ok |-> FALSE, data |-> data]
        ELSE IF ~FitsInt(z.val) \/ Val(z.val) > Len(z.c.mv)
        THEN [ok |-> FALSE, data |-> data]
        ELSE IF \E i \in 1..Val(z.val) : z.c.mv[i] # 0
        THEN [ok |-> FALSE, data |-> data]
        ELSE [ok |-> TRUE, data |-> GetItemFrom(z.c, Val(z.val))]

----------------------------------------------------------------------------
(* Value sections as they are written, for the inputs of the model.        *)

\* Bounds of the windowed inputs.
MaxPoints == 3
MaxWin == 2
MaxWinChunks == 2
MaxIterations == 4
\* Where the Value section of the inputs starts in its file.
ValueOffset == 40

ToBytes2(n) == <<n \div 256, n % 256>>
ToBytes4(n) == <<n \div 16777216, (n \div 65536) % 256, (n \div 256) % 256, n % 256>>

\* The bytes of one item: sample i of chunk c of signal k (1: the sweep),
\* or the padding of a window.
Token(k, c, i) == 32 * k + 8 * (c - 1) + i
ItemBytes(type, tok) == <<tok>> \o Zeros(ItemSize(type) - 1)
PadItem(type) == [i \in 1..ItemSize(type) |-> 238]

RECURSIVE RunBytes(_, _, _, _, _)
RunBytes(type, k, c, win, valid) ==
    IF win = 0 THEN <<>>
    ELSE RunBytes(type, k, c, win - 1, valid)
         \o (IF win <= valid THEN ItemBytes(type, Token(k, c, win)) ELSE PadItem(type))

TracePad == <<255, 255, 255, 255, 127, 255, 255, 255>>
DataTag == <<0, 0, 0, 16>>
FillerTag == <<0, 0, 0, 20>>

RECURSIVE TraceRunsBytes(_, _, _, _)
TraceRunsBytes(sigs, k, c, ch) ==
    IF k > Len(sigs) THEN <<>>
    ELSE TracePad \o RunBytes(sigs[k].type, k, c, ch.win, ch.valid)
         \o TraceRunsBytes(sigs, k + 1, c, ch)

ChunkBytes(sigs, c, ch) ==
    IF ch.filler
    THEN FillerTag \o ToBytes4(ch.win) \o [i \in 1..ch.win |-> 222]
    ELSE DataTag \o ToBytes2(ch.win) \o ToBytes2(ch.valid)
         \o RunBytes(sigs[1].type, 1, c, ch.win, ch.valid)
         \o TraceRunsBytes(sigs, 2, c, ch)

RECURSIVE ChunksBytes(_, _, _)
ChunksBytes(sigs, chunks, c) ==
    IF c > Len(chunks) THEN <<>>
    ELSE ChunkBytes(sigs, c, chunks[c]) \o ChunksBytes(sigs, chunks, c + 1)

WindowedBody(in) ==
    FillerTag \o ToBytes4(in.zeropad) \o Zeros(in.zeropad)
    \o ChunksBytes(in.sigs, in.chunks, 1)

\* A section: tag, end offset (or the 0xFFFFFFFF of an empty section), body.
SectionBytes(offset, body, sentinel) ==
    <<0, 0, 0, 21>>
    \o (IF sentinel THEN EndSentinel ELSE ToBytes4(offset + 8 + Len(body)))
    \o body

SeqsUpTo(S, n) == UNION {[1..k -> S] : k \in 0..n}

WinChunks ==
    [filler : {FALSE}, win : 0..MaxWin, valid : 0..MaxWin]
    \cup [filler : {TRUE}, win : {0, 4}, valid : {0}]

Sig(name, type) == [name |-> name, type |-> type]
WinSignals ==
    { <<Sig("t", DOUBLE), Sig("a", DOUBLE)>>,
      <<Sig("t", DOUBLE), Sig("a", INT8), Sig("b", INT32)>> }

\* The body of a Value section that was cut short by cut bytes.
CutBody(body, cut) == SubSeq(body, 1, Max(Len(body) - cut, 0))

WinInputs ==
    [npoints : 0..MaxPoints, zeropad : {0, 4}, sigs : WinSignals,
     chunks : SeqsUpTo(WinChunks, MaxWinChunks), cut : {0, 8}]

----------------------------------------------------------------------------
(* SweepValueSection.get_data for the windowed layout: one action per      *)
(* iteration of its while loop.                                            *)

ChunkFiller == <<20>>

\* d >> 16 and d & 0xFFFF of the int32 read after the chunk tag
NpointsWin(d) == 256 * Pad4(d)[1] + Pad4(d)[2]
NpointsValid(d) == 256 * Pad4(d)[3] + Pad4(d)[4]

\* points_read += npoints_win
Advance(npoints_win, npoints_valid) == npoints_win

\* The traces part of one chunk: for each trace 8 bytes are skipped, then
\* npoints_valid items are stored at points_read and the cursor moves on by
\* npoints_win items.
RECURSIVE ReadTraceRuns(_, _, _, _, _, _)
ReadTraceRuns(k, data, traces, pr, win, valid) ==
    IF k > Len(gdSignals) THEN [ok |-> TRUE, data |-> data, traces |-> traces]
    ELSE LET d1 == GetItemFrom(data, 8)
             fb == FromBuffer(d1.mv, valid, gdSignals[k].type)
             sa == SliceAssign(DictGet(traces, gdSignals[k].name), pr, fb.a)
         IN  IF ~fb.ok \/ ~sa.ok THEN [ok |-> FALSE, data |-> data, traces |-> traces]
             ELSE ReadTraceRuns(k + 1,
                                GetItemFrom(d1, win * ItemSize(gdSignals[k].type)),
                                DictSet(traces, gdSignals[k].name, sa.a),
                                pr, win, valid)

GetDataFiller ==
    /\ gdPc = "loop"
    /\ gdRead < gdNpoints
    /\ Len(gdLog) < MaxIterations
    /\ LET t == read_int32(gdData, FALSE)
           l == read_int32(t.c, FALSE)
       IN  /\ t.val = ChunkFiller
           /\ gdData' = GetItemFromDigits(l.c, l.val)
           /\ gdLog' = Append(gdLog, [filler |-> TRUE, win |-> 0, valid |-> 0,
                                      at |-> gdRead, from |-> gdData.abspos,
                                      len |-> Len(gdData.mv)])
    /\ UNCHANGED <<gdInput, gdPc, gdSignals, gdNpoints, gdRead, gdSwept, gdTraces, notGd>>

GetDataChunk ==
    /\ gdPc = "loop"
    /\ gdRead < gdNpoints
    /\ Len(gdLog) < MaxIterations
    /\ LET t == read_int32(gdData, FALSE)
           d == read_int32(t.c, FALSE)
           win == NpointsWin(d.val)
           valid == NpointsValid(d.val)
           sweep == gdSignals[1]
           fb == FromBuffer(d.c.mv, valid, sweep.type)
           sa == SliceAssign(gdSwept, gdRead, fb.a)
           tr == ReadTraceRuns(2, GetItemFrom(d.c, win * ItemSize(sweep.type)),
                               gdTraces, gdRead, win, valid)
       IN  /\ t.val # ChunkFiller
           /\ gdLog' = Append(gdLog, [filler |-> FALSE, win |-> win, valid |-> valid,
                                      at |-> gdRead, from |-> gdData.abspos,
                                      len |-> Len(gdData.mv)])
           /\ IF ~fb.ok \/ ~sa.ok
              THEN /\ gdPc' = "raised"
                   /\ UNCHANGED <<gdData, gdRead, gdSwept, gdTraces>>
              ELSE IF ~tr.ok
              THEN /\ gdPc' = "raised"
                   /\ gdSwept' = sa.a
                   /\ UNCHANGED <<gdData, gdRead, gdTraces>>
              ELSE /\ gdSwept' = sa.a
                   /\ gdTraces' = tr.traces
                   /\ gdData' = tr.data
                   /\ gdRead' = gdRead + Advance(win, valid)
                   /\ UNCHANGED gdPc
    /\ UNCHANGED <<gdInput, gdSignals, gdNpoints, notGd>>

GetDataReturn ==
    /\ gdPc = "loop"
    /\ ~(gdRead < gdNpoints)
    /\ gdPc' = "returned"
    /\ UNCHANGED <<gdInput, gdSignals, gdNpoints, gdData, gdRead, gdSwept, gdTraces, gdLog, notGd>>

GetDataStep ==
    \/ GetDataFiller
    \/ GetDataChunk
    \/ GetDataReturn

\* get_data is entered with zeroed arrays, one per flattened trace name.
RECURSIVE ZeroTraces(_, _, _)
ZeroTraces(sigs, k, n) ==
    IF k > Len(sigs) THEN <<>>
    ELSE DictSet(ZeroTraces(sigs, k + 1, n), sigs[k].name, NpZeros(n))

GdIdle ==
    /\ gdInput = <<>>
    /\ gdPc = "idle"
    /\ gdSignals = <<>>
    /\ gdNpoints = 0
    /\ gdData = MemoryViewAbs(<<>>, 0)
    /\ gdRead = 0
    /\ gdSwept = <<>>
    /\ gdTraces = <<>>
    /\ gdLog = <<>>

\* The state in which get_data(npoints) enters its loop for a windowed
\* Value section: Section.__init__ and the removal of the zero pad are done.
GdEnter(in) ==
    LET sec == SectionInit(MemoryViewAbs(
                   SectionBytes(ValueOffset, CutBody(WindowedBody(in), in.cut), FALSE),
                   ValueOffset))
        zp == RemoveZeroPad(sec.data)
    IN  /\ sec.ok /\ zp.ok
        /\ gdInput = in
        /\ gdPc = "loop"
        /\ gdSignals = in.sigs
        /\ gdNpoints = in.npoints
        /\ gdData = zp.data
        /\ gdRead = 0
        /\ gdSwept = NpZeros(in.npoints)
        /\ gdTraces = ZeroTraces(in.sigs, 2, in.npoints)
        /\ gdLog = <<>>

GdStart == \E in \in WinInputs : GdEnter(in)

(* C4: windowed decoding stops exactly when the valid samples of the       *)
(* non-filler chunks read sum to N, and sample j of the sweep and of each  *)
(* trace is the j-th valid sample in chunk order, with no unwritten slot   *)
(* between the samples of consecutive windows.                             *)
RECURSIVE C4_SumValid(_)
C4_SumValid(log) ==
    IF log = <<>> THEN 0
    ELSE (IF Head(log).filler THEN 0 ELSE Head(log).valid) + C4_SumValid(Tail(log))

\* The valid samples of signal k as written, in chunk order.
RECURSIVE C4_Written(_, _, _)
C4_Written(in, k, c) ==
    IF c > Len(in.chunks) THEN <<>>
    ELSE (IF in.chunks[c].filler THEN <<>>
          ELSE [i \in 1..Min(in.chunks[c].valid, in.chunks[c].win) |->
                   Number(in.sigs[k].type, ItemBytes(in.sigs[k].type, Token(k, c, i)))])
         \o C4_Written(in, k, c + 1)

C4_WellFormed(in) ==
    /\ in.cut = 0
    /\ \A c \in 1..Len(in.chunks) :
        in.chunks[c].filler \/ in.chunks[c].valid <= in.chunks[c].win

C4_ValidSamplesInOrder ==
    (gdPc = "returned" /\ C4_WellFormed(gdInput)) =>
        /\ C4_SumValid(gdLog) = gdNpoints
        /\ gdSwept = SubSeq(C4_Written(gdInput, 1, 1), 1, gdNpoints)
        /\ \A k \in 2..Len(gdSignals) :
               DictGet(gdTraces, gdSignals[k].name)
                   = SubSeq(C4_Written(gdInput, k, 1), 1, gdNpoints)

----------------------------------------------------------------------------
(* The loop of get_data as it runs: the test of the loop and its body are  *)
(* steps of their own, and no history is kept. abspos, which get_data      *)
(* never reads, is not carried along, so that a cursor is its bytes.       *)

\* The body of the while loop, once: a filler chunk, or a data chunk.
GetDataTurn(data, read, swept, traces) ==
    LET t == read_int32(data, FALSE)
        l == read_int32(t.c, FALSE)
        win == NpointsWin(l.val)
        valid == NpointsValid(l.val)
        sweep == gdSignals[1]
        fb == FromBuffer(l.c.mv, valid, sweep.type)
        sa == SliceAssign(swept, read, fb.a)
        tr == ReadTraceRuns(2, GetItemFrom(l.c, win * ItemSize(sweep.type)),
                            traces, read, win, valid)
    IN  IF t.val = ChunkFiller
        THEN [ok |-> TRUE, data |-> GetItemFromDigits(l.c, l.val), read |-> read,
              swept |-> swept, traces |-> traces]
        ELSE IF ~fb.ok \/ ~sa.ok
        THEN [ok |-> FALSE, data |-> data, read |-> read, swept |-> swept,
              traces |-> traces]
        ELSE IF ~tr.ok
        THEN [ok |-> FALSE, data |-> data, read |-> read, swept |-> sa.a,
              traces |-> traces]
        ELSE [ok |-> TRUE, data |-> tr.data, read |-> read + Advance(win, valid),
              swept |-> sa.a, traces |-> tr.traces]

\* while points_read < npoints
GetDataTest ==
    /\ gdPc = "loop"
    /\ gdPc' = IF gdRead < gdNpoints THEN "body" ELSE "returned"
    /\ UNCHANGED <<gdInput, gdSignals, gdNpoints, gdData, gdRead, gdSwept, gdTraces,
                   gdLog, notGd>>

\* The body of the loop, run once.
GetDataBody ==
    /\ gdPc = "body"
    /\ \E r \in {GetDataTurn(gdData, gdRead, gdSwept, gdTraces)} :
           /\ gdPc' = IF r.ok THEN "loop" ELSE "raised"
           /\ gdData' = MemoryViewAbs(r.data.mv, 0)
           /\ gdRead' = r.read
           /\ gdSwept' = r.swept
           /\ gdTraces' = r.traces
    /\ UNCHANGED <<gdInput, gdSignals, gdNpoints, gdLog, notGd>>

GetDataRunStep ==
    \/ GetDataTest
    \/ GetDataBody

(* C23: for every windowed Value section body and every N get_data         *)
(* terminates, by returning the arrays or by failing, also when the body   *)
(* is exhausted before N points are read and when a chunk header has       *)
(* npoints_window = 0. The loop is deterministic and its turns depend on   *)
(* points_read, the arrays and the bytes left only, and a turn never adds  *)
(* bytes nor lowers points_read; so get_data terminates exactly if every   *)
(* turn that stays in the loop reads points or consumes bytes.             *)
C23_EveryTurnAdvances ==
    [][(gdPc = "body" /\ gdPc' = "loop")
          => (gdRead' > gdRead \/ Len(gdData'.mv) < Len(gdData.mv))]_vars

\* The bytes the runs of signals 1..k-1 of a chunk of window w take, the 8
\* bytes before each trace run among them.
RECURSIVE C22_Before(_, _)
C22_Before(k, w) ==
    IF k = 1 THEN 0
    ELSE C22_Before(k - 1, w) + w * ItemSize(gdSignals[k - 1].type)
         + (IF k > 2 THEN 8 ELSE 0)

\* Where the run of signal k starts in a chunk, from the chunk's tag.
C22_RunAt(k, w) == 8 + C22_Before(k, w) + (IF k > 1 THEN 8 ELSE 0)

\* Sample i of the run of signal k of the chunk the cursor stands at.
C22_Sample(k, w, i) ==
    LET size == ItemSize(gdSignals[k].type)
        at == C22_RunAt(k, w) + (i - 1) * size
    IN  Number(gdSignals[k].type, SubSeq(gdData.mv, at + 1, at + size))

\* An array after the first valid samples of the run of signal k were
\* stored at points_read.
C22_Stored(array, k, w, valid) ==
    [j \in 1..Len(array) |->
        IF j > gdRead /\ j <= gdRead + valid THEN C22_Sample(k, w, j - gdRead)
        ELSE array[j]]

(* C22: in windowed decoding a chunk tagged 0x14 is skipped as an int32 l  *)
(* plus l bytes and gives no samples; any other chunk is an int32 d, the   *)
(* sweep run, then one run per trace in declaration order, each of W items *)
(* of which the first npoints_valid are taken and each trace run after 8   *)
(* skipped bytes, so that the cursor advances by                           *)
(* 8 + W*size(sweep) + the sum over the traces of 8 + W*size(trace).       *)
C22_ChunkLayout ==
    [][(gdPc = "loop" /\ gdPc' = "loop" /\ Len(gdLog') = Len(gdLog) + 1) =>
        LET e == gdLog'[Len(gdLog')]
            n == Len(gdSignals)
            l == FromBytes(SubSeq(gdData.mv, 5, 8))
        IN  IF e.filler
            THEN /\ FitsInt(l)
                 /\ gdData'.abspos = gdData.abspos + 8 + Val(l)
                 /\ gdSwept' = gdSwept /\ gdTraces' = gdTraces /\ gdRead' = gdRead
            ELSE /\ gdData'.abspos = gdData.abspos + C22_RunAt(n, e.win)
                                        + e.win * ItemSize(gdSignals[n].type)
                 /\ gdSwept' = C22_Stored(gdSwept, 1, e.win, e.valid)
                 /\ \A k \in 2..n :
                        DictGet(gdTraces', gdSignals[k].name)
                            = C22_Stored(DictGet(gdTraces, gdSignals[k].name), k,
                                         e.win, e.valid)]_vars

----------------------------------------------------------------------------
(* The Trace section and the definitions it holds. A SignalDef or Group is *)
(* a record (group, id, name, typedef, properties, children); the typedef  *)
(* is (name, typeid, properties).                                          *)

TypeDef(name, typeid, units) ==
    [name |-> name, typeid |-> typeid,
     properties |-> <<[k |-> "units", v |-> units]>>]
NoTypeDef == [name |-> "", typeid |-> 0, properties |-> <<>>]

SignalDef(id, name, typedef, properties) ==
    [group |-> FALSE, id |-> id, name |-> name, typedef |-> typedef,
     properties |-> properties, children |-> <<>>]
Group(id, name, children) ==
    [group |-> TRUE, id |-> id, name |-> name, typedef |-> NoTypeDef,
     properties |-> <<>>, children |-> children]

RECURSIVE ChildrenByName(_, _)
ChildrenByName(by_name, children) ==
    IF children = <<>> THEN by_name
    ELSE ChildrenByName(DictSet(by_name, Head(children).name, Head(children)),
                        Tail(children))

\* self.traces[signaldef.id] = signaldef
TracesSet(traces, signaldef) == DictSet(traces, signaldef.id, signaldef)

\* The loop of TraceSection.__init__ over the entries read_signaldef yields.
RECURSIVE TraceSectionInit(_, _, _, _)
TraceSectionInit(entries, k, traces, by_name) ==
    IF k > Len(entries) THEN [traces |-> traces, traces_by_name |-> by_name]
    ELSE LET sd == entries[k]
         IN  TraceSectionInit(entries, k + 1, TracesSet(traces, sd),
                 IF sd.group THEN ChildrenByName(by_name, sd.children)
                 ELSE DictSet(by_name, sd.name, sd))

\* TraceSection.flattened(), over self.traces.values()
RECURSIVE flattened(_)
flattened(values) ==
    IF values = <<>> THEN <<>>
    ELSE (IF Head(values).group THEN Head(values).children ELSE <<Head(values)>>)
         \o flattened(Tail(values))

Names(sds) == [i \in 1..Len(sds) |-> sds[i].name]
SigsOf(sds) == [i \in 1..Len(sds) |-> Sig(sds[i].name, sds[i].typedef.typeid)]

----------------------------------------------------------------------------
(* The flat layout: get_complex_dtype and the non-windowed get_data.       *)

\* The fields of one item with the 8 bytes of an id before each of them.
RECURSIVE DtypeFields_gapped(_, _)
DtypeFields_gapped(lst, offset) ==
    IF lst = <<>> THEN <<>>
    ELSE <<[name |-> Head(lst).name, type |-> Head(lst).typedef.typeid,
            offset |-> offset]>>
         \o DtypeFields_gapped(Tail(lst), offset + ItemSize(Head(lst).typedef.typeid) + 8)
\* The fields of one top-level item, from offset on.
RECURSIVE DtypeFields(_, _)
DtypeFields(lst, offset) ==
    IF lst = <<>> THEN <<>>
    ELSE <<[name |-> Head(lst).name, type |-> Head(lst).typedef.typeid,
            offset |-> offset]>>
         \o DtypeFields(Tail(lst), offset + ItemSize(Head(lst).typedef.typeid))

RECURSIVE SizeOf(_)
SizeOf(lst) ==
    IF lst = <<>> THEN 0
    ELSE ItemSize(Head(lst).typedef.typeid) + SizeOf(Tail(lst))

IdGap == 8

\* get_complex_dtype: the fields (name, format, offset) of the record.
RECURSIVE get_complex_dtype(_, _)
get_complex_dtype(offset, items) ==
    IF items = <<>> THEN <<>>
    ELSE LET lst == IF Head(items).group THEN Head(items).children ELSE <<Head(items)>>
         IN  DtypeFields(lst, offset + IdGap)
             \o get_complex_dtype(offset + IdGap + SizeOf(lst), Tail(items))

\* np.dtype(dict): it raises when a name occurs twice; its itemsize is the
\* end of the last field.
DtypeOk(fields) ==
    \A i, j \in 1..Len(fields) : fields[i].name = fields[j].name => i = j
DtypeItemSize(fields) ==
    IF fields = <<>> THEN 0
    ELSE fields[Len(fields)].offset + ItemSize(fields[Len(fields)].type)
HasField(fields, name) == \E i \in 1..Len(fields) : fields[i].name = name
FieldOf(fields, name) == fields[CHOOSE i \in 1..Len(fields) : fields[i].name = name]

\* count = len(self._data) // dtype.itemsize
FlatCount(mv, itemsize, npoints) == Len(mv) \div itemsize

\* array[name]: the column of a field over the records of the buffer
Column(mv, fields, count, name) ==
    LET f == FieldOf(fields, name)
        size == DtypeItemSize(fields)
    IN  [r \in 1..count |->
            Number(f.type, SubSeq(mv, (r - 1) * size + f.offset + 1,
                                  (r - 1) * size + f.offset + ItemSize(f.type)))]

RECURSIVE Columns(_, _, _, _)
Columns(mv, fields, count, names) ==
    IF names = <<>> THEN <<>>
    ELSE DictSet(Columns(mv, fields, count, SubSeq(names, 1, Len(names) - 1)),
                 names[Len(names)], Column(mv, fields, count, names[Len(names)]))

\* The flat body as written: per record and per top-level item, the id
\* marker (0x10, id) and then the items.
RECURSIVE FlatItems(_, _, _)
FlatItems(lst, k, r) ==
    IF lst = <<>> THEN <<>>
    ELSE ItemBytes(Head(lst).typedef.typeid, Token(k, r, 1)) \o FlatItems(Tail(lst), k + 1, r)

RECURSIVE FlatRecord(_, _, _)
FlatRecord(items, k, r) ==
    IF items = <<>> THEN <<>>
    ELSE LET lst == IF Head(items).group THEN Head(items).children ELSE <<Head(items)>>
         IN  <<0, 0, 0, 16>> \o ToBytes4(Head(items).id) \o FlatItems(lst, k, r)
             \o FlatRecord(Tail(items), k + Len(lst), r)

RECURSIVE FlatBody(_, _)
FlatBody(items, records) ==
    IF records = 0 THEN <<>>
    ELSE FlatBody(items, records - 1) \o FlatRecord(items, 1, records)

----------------------------------------------------------------------------
(* The files the facade is constructed on. A file is given by what its     *)
(* sections hold: the header flags, the sweep, the entries of the Trace    *)
(* section, and what its Value section (or, for a PSF-XL index, its        *)
(* sidecar) was written from. The Value section is decoded from its bytes. *)

\* Bounds of the facade inputs.
MaxEntries == 2
MaxRecords == 2
MaxFacadePoints == 2

Volt == TypeDef("V", DOUBLE, "V")
Flag == TypeDef("flag", INT8, "")
Time == TypeDef("sweep", DOUBLE, "s")

XlIdx(offset) == <<[k |-> "psfxl_idx", v |-> <<0, offset, 0, 0, 0, 0, 0, 0>>]>>

\* The entries a Trace section of the inputs is made of: signals and groups
\* with ids and names that may repeat.
TraceEntries ==
    { SignalDef(1, "a", Volt, XlIdx(1)),
      SignalDef(2, "b", Flag, XlIdx(0)),
      SignalDef(2, "a", Volt, XlIdx(0)),
      Group(3, "g", <<SignalDef(4, "b", Volt, XlIdx(1)), SignalDef(5, "c", Flag, XlIdx(0))>>) }

EntryLists == SeqsUpTo(TraceEntries, MaxEntries) \ {<<>>}

SweepDef == SignalDef(9, "t", Time, <<[k |-> "units", v |-> "s"]>>)
NoSignalDef == SignalDef(0, "", NoTypeDef, <<>>)

FacadeChunkLists ==
    { <<>>,
      <<[filler |-> FALSE, win |-> 2, valid |-> 2]>>,
      <<[filler |-> FALSE, win |-> 2, valid |-> 1]>>,
      <<[filler |-> TRUE, win |-> 4, valid |-> 0], [filler |-> FALSE, win |-> 1, valid |-> 1]>>,
      <<[filler |-> FALSE, win |-> 1, valid |-> 1], [filler |-> FALSE, win |-> 2, valid |-> 1]>> }

\* The sidecars of the inputs: chunk 0 is the first chunk of a signal, and
\* chunk 1 the last chunk of a signal of two chunks.
Chunk(previous, type, nx, ny) ==
    [read |-> TRUE, marker |-> TRUE, previous |-> previous, type |-> type,
     csize8 |-> FALSE, x |-> [ok |-> TRUE, n |-> nx], y |-> [ok |-> TRUE, n |-> ny]]
Sidecars ==
    { [present |-> TRUE, chunks |-> <<Chunk(-1, Type22, 2, 2), Chunk(0, TypeA2, 1, 1)>>],
      [present |-> TRUE, chunks |-> <<Chunk(-1, TypeA0, 1, 1), Chunk(0, TypeA2, 2, 1)>>],
      [present |-> FALSE, chunks |-> <<>>] }
NoSidecar == [present |-> FALSE, chunks |-> <<>>]

SimpleValues ==
    { <<[k |-> "a", v |-> [typedef |-> Volt, value |-> <<7>>]]>>,
      <<[k |-> "a", v |-> [typedef |-> Volt, value |-> <<7>>]],
        [k |-> "b", v |-> [typedef |-> Flag, value |-> <<[k |-> "vgs", v |-> <<8>>]>>]]>> }

SweptFlat ==
    [kind : {"flat"}, hasTrace : {TRUE}, npoints : 1..MaxFacadePoints,
     entries : EntryLists, sentinel : {FALSE}, records : 0..MaxRecords,
     zeropad : {0}, chunks : {<<>>}, values : {<<>>}, sidecar : {NoSidecar}]
SweptWindowed ==
    [kind : {"windowed"}, hasTrace : {TRUE}, npoints : 0..MaxFacadePoints,
     entries : EntryLists, sentinel : {FALSE}, records : {0},
     zeropad : {0}, chunks : FacadeChunkLists, values : {<<>>}, sidecar : {NoSidecar}]
SweptEmpty ==
    [kind : {"flat", "windowed"}, hasTrace : {TRUE}, npoints : {0},
     entries : EntryLists, sentinel : {TRUE}, records : {0},
     zeropad : {0}, chunks : {<<>>}, values : {<<>>}, sidecar : {NoSidecar}]
SweptNoTrace ==
    [kind : {"flat"}, hasTrace : {FALSE}, npoints : {1},
     entries : {<<>>}, sentinel : {FALSE}, records : {1},
     zeropad : {0}, chunks : {<<>>}, values : {<<>>}, sidecar : {NoSidecar}]
Simple ==
    [kind : {"simple"}, hasTrace : {FALSE}, npoints : {0},
     entries : {<<>>}, sentinel : {FALSE}, records : {0},
     zeropad : {0}, chunks : {<<>>}, values : SimpleValues, sidecar : {NoSidecar}]
XlIndex ==
    [kind : {"index"}, hasTrace : {TRUE}, npoints : {0},
     entries : EntryLists, sentinel : {FALSE}, records : {0},
     zeropad : {0}, chunks : {<<>>}, values : {<<>>}, sidecar : Sidecars]

FacadeInputs ==
    SweptFlat \cup SweptWindowed \cup SweptEmpty \cup SweptNoTrace \cup Simple \cup XlIndex

IsSwept(in) == in.kind \in {"flat", "windowed"}

\* The Value section of a swept input, as the slice of the file the TOC
\* gives for it.
ValueSectionData(in) ==
    LET written == <<SweepDef>> \o in.entries
        body == IF in.sentinel THEN <<>>
                ELSE IF in.kind = "windowed"
                THEN WindowedBody([zeropad |-> in.zeropad, chunks |-> in.chunks,
                                   sigs |-> SigsOf(flattened(written))])
                ELSE FlatBody(written, in.records)
    IN  MemoryViewAbs(SectionBytes(ValueOffset, body, in.sentinel), ValueOffset)

----------------------------------------------------------------------------
(* PsfBinFile. psfbin.py names some attributes of the sections by the      *)
(* names of an earlier revision of psfbin_sections.py; they are read here  *)
(* as the attributes that hold the same data in the revision under src/:   *)
(* dtypes as typedefs, sweeps as sweep_def, ref as typedef, and the traces *)
(* and traces_by_name of a SimpleValueSection as its values.               *)

NewObject ==
    [is_psfxl_index |-> FALSE, toc |-> {}, header |-> <<>>, is_sweep |-> FALSE,
     npoints |-> 0, is_windowed |-> FALSE, has_sweep_section |-> FALSE,
     sweep_def |-> NoSignalDef, has_trace_section |-> FALSE, traces |-> <<>>,
     traces_by_name |-> <<>>, value_section |-> "none", endpos |-> <<>>,
     values |-> <<>>, has_values |-> FALSE, swept_values |-> <<>>,
     trace_values |-> <<>>]


\* _read_toc: the section kinds the TOC lists.
TocOf(in) ==
    IF in.kind = "index" THEN {}
    ELSE {"HEADER", "TYPE", "VALUE"}
         \cup (IF IsSwept(in) THEN {"SWEEP"} ELSE {})
         \cup (IF in.hasTrace THEN {"TRACE"} ELSE {})

HeaderOf(in) ==
    <<[k |-> "PSF sweeps", v |-> IF in.kind = "simple" THEN 0 ELSE 1],
      [k |-> "PSF sweep points", v |-> in.npoints]>>
    \o (IF in.kind = "windowed" THEN <<[k |-> "PSF window size", v |-> 4096]>>
        ELSE <<>>)

\* __init__ up to and including _read_defs.
ReadDefs(in) ==
    LET header == HeaderOf(in)
        is_sweep == DictGet(header, "PSF sweeps") # 0
        has_trace == in.kind = "index" \/ "TRACE" \in TocOf(in)
        ts == IF has_trace THEN TraceSectionInit(in.entries, 1, <<>>, <<>>)
              ELSE [traces |-> <<>>, traces_by_name |-> <<>>]
    IN  [NewObject EXCEPT
            !.is_psfxl_index = in.kind = "index",
            !.toc = TocOf(in),
            !.header = header,
            !.is_sweep = is_sweep,
            !.npoints = DictGet(header, "PSF sweep points"),
            !.is_windowed = DictHas(header, "PSF window size"),
            !.has_sweep_section = is_sweep,
            !.sweep_def = IF is_sweep THEN SweepDef ELSE NoSignalDef,
            !.has_trace_section = has_trace,
            !.traces = ts.traces,
            !.traces_by_name = ts.traces_by_name]

\* The non-windowed get_data.
GetDataFlat(o, data, fields) ==
    LET count == FlatCount(data.mv, DtypeItemSize(fields), o.npoints)
        trace_names == DictKeys(o.traces_by_name)
    IN  IF \E i \in 1..Len(trace_names) : ~HasField(fields, trace_names[i])
        THEN [ok |-> FALSE, swept |-> <<>>, traces |-> <<>>]
        ELSE [ok |-> TRUE,
              swept |-> Column(data.mv, fields, count, o.sweep_def.name),
              traces |-> Columns(data.mv, fields, count, trace_names)]

GdUnchanged ==
    UNCHANGED <<gdInput, gdPc, gdSignals, gdNpoints, gdData, gdRead, gdSwept,
                gdTraces, gdLog>>

Loaded(o) ==
    /\ pc' = "loaded"
    /\ obj' = o
    /\ objLoaded' = o
    /\ GdUnchanged

LoadFailed(o) ==
    /\ pc' = "failed"
    /\ obj' = o
    /\ objLoaded' = objLoaded
    /\ GdUnchanged

\* PsfBinFile.__init__, up to the loop of the windowed get_data.
Construct ==
    /\ pc = "new"
    /\ LET o == ReadDefs(inFile)
           sec == SectionInit(ValueSectionData(inFile))
           zp == RemoveZeroPad(sec.data)
           fields == get_complex_dtype(0, <<o.sweep_def>> \o DictValues(o.traces))
           flat == GetDataFlat(o, sec.data, fields)
           sweep_section == [o EXCEPT !.value_section = "sweep", !.endpos = sec.endpos]
       IN  IF o.is_psfxl_index THEN Loaded(o)
           ELSE IF ~o.is_sweep
           THEN Loaded([o EXCEPT !.value_section = "simple", !.values = inFile.values])
           ELSE IF ~o.has_trace_section \/ ~sec.ok THEN LoadFailed(o)
           ELSE IF sec.endpos = EndSentinel THEN Loaded(sweep_section)
           ELSE IF o.is_windowed
           THEN IF ~zp.ok THEN LoadFailed(o)
                ELSE /\ pc' = "get_data"
                     /\ obj' = sweep_section
                     /\ objLoaded' = objLoaded
                     /\ gdInput' = [npoints |-> o.npoints, zeropad |-> inFile.zeropad,
                                    sigs |-> SigsOf(flattened(<<SweepDef>> \o inFile.entries)),
                                    chunks |-> inFile.chunks]
                     /\ gdPc' = "loop"
                     /\ gdSignals' = SigsOf(<<o.sweep_def>> \o flattened(DictValues(o.traces)))
                     /\ gdNpoints' = o.npoints
                     /\ gdData' = zp.data
                     /\ gdRead' = 0
                     /\ gdSwept' = NpZeros(o.npoints)
                     /\ gdTraces' = ZeroTraces(
                            SigsOf(<<o.sweep_def>> \o flattened(DictValues(o.traces))),
                            2, o.npoints)
                     /\ gdLog' = <<>>
           ELSE IF ~DtypeOk(fields) \/ ~flat.ok THEN LoadFailed(o)
           ELSE Loaded([sweep_section EXCEPT !.has_values = TRUE,
                                             !.swept_values = flat.swept,
                                             !.trace_values = flat.traces])
    /\ UNCHANGED <<inFile, call, firstSig, notFac>>

\* The windowed get_data has returned: _read_traces keeps its arrays.
FinishLoad ==
    /\ pc = "get_data"
    /\ gdPc = "returned"
    /\ Loaded([obj EXCEPT !.has_values = TRUE, !.swept_values = gdSwept,
                          !.trace_values = gdTraces])
    /\ UNCHANGED <<inFile, call, firstSig, notFac>>

\* The windowed get_data has raised: so does the constructor.
FailLoad ==
    /\ pc = "get_data"
    /\ gdPc = "raised"
    /\ LoadFailed(obj)
    /\ UNCHANGED <<inFile, call, firstSig, notFac>>

----------------------------------------------------------------------------
(* The calls on a loaded PsfBinFile. Each yields a result (ok, val) and    *)
(* the object as the call leaves it (self).                                *)

\* shared: the value returned is an object the file object holds, not a
\* new one.
Raised(o) == [ok |-> FALSE, val |-> <<>>, self |-> o, shared |-> FALSE]
Result(v, o) == [ok |-> TRUE, val |-> v, self |-> o, shared |-> FALSE]

\* return self._header
header(o) == [Result(o.header, o) EXCEPT !.shared = TRUE]

\* sweep_info taking the name of the sweep's type for the name of the sweep.
sweep_info_typename(o) ==
    IF ~o.has_sweep_section THEN Result(<<>>, o)
    ELSE Result(DictSet(o.sweep_def.properties, "name", o.sweep_def.typedef.name), o)

\* sweep_info writing the name into the properties of the sweep itself.
sweep_info_nocopy(o) ==
    IF ~o.has_sweep_section THEN Result(<<>>, o)
    ELSE LET info == DictSet(o.sweep_def.properties, "name", o.sweep_def.name)
         IN  Result(info, [o EXCEPT !.sweep_def.properties = info])

\* info = data_type.properties.copy(); info['name'] = data_type.name
sweep_info(o) ==
    IF ~o.has_sweep_section THEN Result(<<>>, o)
    ELSE Result(DictSet(o.sweep_def.properties, "name", o.sweep_def.name), o)

names(o) ==
    IF "TRACE" \in o.toc THEN Result(Names(flattened(DictValues(o.traces))), o)
    ELSE IF o.value_section = "simple" THEN Result(DictKeys(o.values), o)
    ELSE Result(DictKeys(o.traces_by_name), o)

signal_info(o, name) ==
    IF o.is_sweep
    THEN LET fl == flattened(DictValues(o.traces))
         IN  IF \E i \in 1..Len(fl) : fl[i].name = name
             THEN LET t == fl[CHOOSE i \in 1..Len(fl) :
                                /\ fl[i].name = name
                                /\ \A j \in 1..i - 1 : fl[j].name # name]
                  IN  IF t.typedef = NoTypeDef THEN Result(<<>>, o)
                      ELSE Result(DictSet(t.typedef.properties, "NAME", t.typedef.name), o)
             ELSE Raised(o)
    ELSE IF o.value_section = "simple"
    THEN IF DictHas(o.values, name) THEN Result(DictGet(o.values, name).typedef, o)
         ELSE Raised(o)
    ELSE IF DictHas(o.traces_by_name, name)
    THEN Result(DictGet(o.traces_by_name, name), o)
    ELSE Raised(o)

DictGetOr(d, k, default) == IF DictHas(d, k) THEN DictGet(d, k) ELSE default

Waveform(t, t_unit, y, y_unit, name) ==
    [t |-> t, t_unit |-> t_unit, y |-> y, y_unit |-> y_unit, name |-> name]

\* read_xl_signal as a function of the sidecar, for sidecars whose chains
\* of previous offsets end (fuel bounds the walk).
RECURSIVE read_xl_signal(_, _, _, _, _)
read_xl_signal(chunks, nextpos, xs, ys, fuel) ==
    IF nextpos = -1 THEN XlWaveform(xs, ys)
    ELSE IF fuel = 0 \/ nextpos < 0 \/ nextpos >= Len(chunks)
    THEN [ok |-> FALSE, x |-> <<>>, y |-> <<>>]
    ELSE LET r == read_xl_chunk(chunks[nextpos + 1], nextpos)
         IN  IF ~r.ok THEN [ok |-> FALSE, x |-> <<>>, y |-> <<>>]
             ELSE read_xl_signal(chunks, r.nextpos, Append(xs, r.x),
                                 Append(ys, [scalar |-> r.scalar, a |-> r.y]), fuel - 1)

\* The PSF-XL branch of get_signal and the body of the loop of get_signals.
XlSignal(o, name, sidecar) ==
    IF ~sidecar.present \/ ~DictHas(o.traces_by_name, name) THEN Raised(o)
    ELSE IF ~DictHas(DictGet(o.traces_by_name, name).properties, "psfxl_idx")
    THEN Raised(o)
    ELSE LET idx == DictGet(DictGet(o.traces_by_name, name).properties, "psfxl_idx")
             w == read_xl_signal(sidecar.chunks, idx[2], <<>>, <<>>, Len(sidecar.chunks))
         IN  IF ~w.ok THEN Raised(o)
             ELSE Result(Waveform(w.x, "s", w.y, "V", name), o)

get_signal(o, name, sidecar) ==
    IF o.is_psfxl_index THEN XlSignal(o, name, sidecar)
    ELSE IF o.is_sweep
    THEN LET si == sweep_info(o)
             info == signal_info(si.self, name)
         IN  IF ~info.ok \/ ~o.has_values \/ ~DictHas(o.trace_values, name)
             THEN Raised(info.self)
             ELSE IF Len(o.swept_values) # Len(DictGet(o.trace_values, name))
             THEN Raised(info.self)
             ELSE Result(Waveform(o.swept_values, DictGetOr(si.val, "units", "-"),
                                  DictGet(o.trace_values, name),
                                  DictGetOr(info.val, "units", "-"), name),
                         info.self)
    ELSE IF DictHas(o.values, name) THEN Result(DictGet(o.values, name).value, o)
    ELSE Raised(o)

RECURSIVE XlSignals(_, _, _, _)
XlSignals(o, ns, sidecar, result) ==
    IF ns = <<>> THEN Result(result, o)
    ELSE LET w == XlSignal(o, Head(ns), sidecar)
         IN  IF ~w.ok THEN Raised(o)
             ELSE XlSignals(o, Tail(ns), sidecar, DictSet(result, Head(ns), w.val))

get_signals(o, ns, sidecar) ==
    IF o.is_psfxl_index
    THEN IF ~sidecar.present THEN Raised(o) ELSE XlSignals(o, ns, sidecar, <<>>)
    ELSE Result(<<>>, o)

CallNames == {"a", "b", "zz"}
BatchLists == {<<>>, <<"a">>, <<"b", "a">>, <<"a", "a">>, <<"zz">>}

NoCall == [op |-> "none", arg |-> <<>>, ok |-> TRUE, val |-> <<>>, shared |-> FALSE]

\* What is remembered of the calls of get_signal for one name: how many
\* there were (up to 2), the result of the first, and whether a call of
\* another kind or for another name came between the first and a later one.
Tracked == {"a", "b"}
NotSeen == [calls |-> 0, between |-> FALSE, ok |-> TRUE, val |-> <<>>]
Track(fs, op, arg, r) ==
    [m \in Tracked |->
        IF op = "get_signal" /\ arg = m
        THEN IF fs[m].calls = 0
             THEN [calls |-> 1, between |-> FALSE, ok |-> r.ok, val |-> r.val]
             ELSE [fs[m] EXCEPT !.calls = 2]
        ELSE IF fs[m].calls = 1 THEN [fs[m] EXCEPT !.between = TRUE]
        ELSE fs[m]]

Called(op, arg, r) ==
    /\ pc = "loaded"
    /\ call' = [op |-> op, arg |-> arg, ok |-> r.ok, val |-> r.val, shared |-> r.shared]
    /\ obj' = r.self
    /\ firstSig' = Track(firstSig, op, arg, r)
    /\ UNCHANGED <<inFile, pc, objLoaded, notFac, gdVars>>

CallHeader == Called("header", <<>>, header(obj))
CallSweepInfo == Called("sweep_info", <<>>, sweep_info(obj))
CallNamesList == Called("names", <<>>, names(obj))
CallSignalInfo == \E n \in CallNames : Called("signal_info", n, signal_info(obj, n))
CallGetSignal ==
    \E n \in CallNames : Called("get_signal", n, get_signal(obj, n, inFile.sidecar))
CallGetSignals ==
    \E ns \in BatchLists : Called("get_signals", ns, get_signals(obj, ns, inFile.sidecar))

NoFile ==
    [kind |-> "none", hasTrace |-> FALSE, npoints |-> 0, entries |-> <<>>,
     sentinel |-> FALSE, records |-> 0, zeropad |-> 0, chunks |-> <<>>,
     values |-> <<>>, sidecar |-> NoSidecar]

FacIdle ==
    /\ inFile = NoFile
    /\ pc = "idle"
    /\ obj = NewObject
    /\ objLoaded = NewObject
    /\ call = NoCall
    /\ firstSig = [n \in Tracked |-> NotSeen]

FacStart ==
    /\ inFile \in FacadeInputs
    /\ pc = "new"
    /\ obj = NewObject
    /\ objLoaded = NewObject
    /\ call = NoCall
    /\ firstSig = [n \in Tracked |-> NotSeen]

FacadeStep ==
    \/ Construct
    \/ GetDataFiller
    \/ GetDataChunk
    \/ GetDataReturn
    \/ FinishLoad
    \/ FailLoad
    \/ CallHeader
    \/ CallSweepInfo
    \/ CallNamesList
    \/ CallSignalInfo
    \/ CallGetSignal
    \/ CallGetSignals

\* The caller of header() or sweep_info() assigns to a key of the mapping
\* it was handed. A mapping the file object holds changes with it.
CallerSetsKey ==
    /\ pc = "loaded"
    /\ call.op \in {"header", "sweep_info"}
    /\ call.val # <<>>
    /\ LET changed == IF call.op = "header"
                      THEN DictSet(call.val, "PSF sweep points", 99)
                      ELSE DictSet(call.val, "units", "x")
       IN  /\ call' = [call EXCEPT !.op = "caller", !.val = changed]
           /\ obj' = IF call.shared THEN [obj EXCEPT !.header = changed] ELSE obj
    /\ firstSig' = Track(firstSig, "caller", <<>>, call)
    /\ UNCHANGED <<inFile, pc, objLoaded, notFac, gdVars>>

\* The files the calls are mixed with changes by the caller on.
CallerInputs == {in \in FacadeInputs : Len(in.entries) <= 1}

CallerStart ==
    /\ inFile \in CallerInputs
    /\ pc = "new"
    /\ obj = NewObject
    /\ objLoaded = NewObject
    /\ call = NoCall
    /\ firstSig = [n \in Tracked |-> NotSeen]

CallerStep ==
    \/ Construct
    \/ GetDataFiller
    \/ GetDataChunk
    \/ GetDataReturn
    \/ FinishLoad
    \/ FailLoad
    \/ CallHeader
    \/ CallSweepInfo
    \/ CallNamesList
    \/ CallSignalInfo
    \/ CallGetSignal
    \/ CallGetSignals
    \/ CallerSetsKey

----------------------------------------------------------------------------
(* Properties of the facade.                                               *)

\* The names a list of Trace entries declares: each ungrouped signal under
\* its own name and each child of a group under its own, in file order.
RECURSIVE DeclaredNames(_)
DeclaredNames(entries) ==
    IF entries = <<>> THEN <<>>
    ELSE (IF Head(entries).group THEN Names(Head(entries).children)
          ELSE <<Head(entries).name>>)
         \o DeclaredNames(Tail(entries))

NoRepeat(seq) == \A i, j \in 1..Len(seq) : seq[i] = seq[j] => i = j
Elements(seq) == {seq[i] : i \in 1..Len(seq)}

\* C1: for every successfully loaded file with a Trace section, names()
\* lists the declared signals (group children flattened one level) in
\* declaration order, and no name occurs twice in the list.
C1_NamesDeclaredOnce ==
    (call.op = "names" /\ inFile.hasTrace)
        => /\ call.ok
           /\ call.val = DeclaredNames(inFile.entries)
           /\ NoRepeat(call.val)

\* C30: for every loaded file that has a Trace section, the set of names
\* names() returns equals the set of names get_signal and signal_info
\* accept, the keys of traces_by_name, also when two top-level entries carry
\* the same id or two signals the same name.
C30_ListedIsFetchable ==
    (call.op = "names" /\ inFile.hasTrace)
        => /\ call.ok
           /\ Elements(call.val) = Elements(DictKeys(obj.traces_by_name))

\* C2: every call of get_signal(n) on a loaded file returns what the first
\* call of get_signal(n) returned, whatever calls came in between, and the
\* file object stays as the constructor left it.
C2_GetSignalPure ==
    /\ pc = "loaded" => obj = objLoaded
    /\ (call.op = "get_signal" /\ call.arg \in Tracked)
           => /\ firstSig[call.arg].calls >= 1
              /\ call.ok = firstSig[call.arg].ok
              /\ call.val = firstSig[call.arg].val

\* A second get_signal("a") has returned a waveform of two points of a
\* windowed file, after other calls came between it and the first.
C2_Witness ==
    /\ inFile.kind = "windowed"
    /\ call.op = "get_signal"
    /\ call.arg = "a"
    /\ call.ok
    /\ Len(call.val.t) = 2
    /\ firstSig["a"].calls = 2
    /\ firstSig["a"].between
    /\ firstSig["b"].calls >= 1

\* C3: on a swept file that loaded, the x vector get_signal returns is the
\* same for every name, and its length is the header's PSF sweep points.
C3_SweepVectorShared ==
    (call.op = "get_signal" /\ call.ok /\ IsSwept(inFile))
        => /\ Len(call.val.t) = DictGet(obj.header, "PSF sweep points")
           /\ \A m \in Tracked :
                  (firstSig[m].calls >= 1 /\ firstSig[m].ok)
                      => firstSig[m].val.t = call.val.t

\* C6: a swept file whose Value section has the end position 0xFFFFFFFF
\* loads without an error, and names() then returns the names of the Trace
\* section without raising.
C6_SentinelLoads ==
    (IsSwept(inFile) /\ inFile.sentinel)
        => /\ pc # "failed"
           /\ call.op = "names"
                  => (call.ok /\ call.val = DeclaredNames(inFile.entries))

\* C7: for names taken from names(), get_signals returns a mapping whose
\* keys are the requested names and whose values are what get_signal
\* returns for each of them, for swept, simple and PSF-XL index files.
C7_BatchIsGetSignal ==
    (/\ call.op = "get_signals"
     /\ Elements(call.arg) \subseteq Elements(names(obj).val)
     /\ \A n \in Elements(call.arg) : get_signal(obj, n, inFile.sidecar).ok)
        => /\ call.ok
           /\ Elements(DictKeys(call.val)) = Elements(call.arg)
           /\ \A n \in Elements(call.arg) :
                  DictGet(call.val, n) = get_signal(obj, n, inFile.sidecar).val

\* Python's None, which is not a mapping.
None == <<"None">>

C16_HeaderIsCopy ==
    /\ call.op = "header" => call.val = HeaderOf(inFile)
    /\ pc = "loaded" => obj = objLoaded

----------------------------------------------------------------------------
(* The footer and the table of contents, on the bytes of the file. The     *)
(* sections are found and framed (tag, end offset) as the code does it;    *)
(* what their bodies hold is the matter of the layers above, and a section *)
(* of the files here has the empty body for a body that parses.            *)

\* SectionType: the names by value, 0 to 4.
SectionNames == <<"HEADER", "TYPE", "SWEEP", "TRACE", "VALUE">>
SectionTypeOk(t) == t \in 0..Len(SectionNames) - 1
SectionType(t) == SectionNames[t + 1]

\* The section kinds a file is written with, in the order of the file.
TocLayouts == {<<0, 1, 4>>, <<0, 1, 2, 4>>, <<0, 1, 2, 3, 4>>}

\* How far the data size of the footer is from the true one.
SizeShifts == {-8, -4, 0, 4, 8, 64}

\* The SignalDefs a Sweep section is written with: one, or a second after it.
SecondSweepDef == SignalDef(10, "temp", Time, <<[k |-> "units", v |-> "C"]>>)
SweepBodies == {<<SweepDef>>, <<SweepDef, SecondSweepDef>>}

\* A file is written from: its section kinds; whether the Header has
\* PSF sweeps != 0; whether the footer is there; the shift of the data
\* size; the TOC entry (0: none) whose offset points past the end; the
\* SignalDefs of its Sweep section.
TocInputs ==
    {in \in [kinds : TocLayouts, sweeps : BOOLEAN, footer : BOOLEAN,
             shift : SizeShifts, bad : 0..5, sweepdefs : SweepBodies \cup {<<>>}] :
        /\ in.bad <= Len(in.kinds)
        /\ ~in.footer => (in.shift = 0 /\ in.bad = 0)
        /\ in.sweepdefs = <<>> <=> (\A i \in 1..Len(in.kinds) : in.kinds[i] # 2)}

TocFileLen(in) == 4 + 16 * Len(in.kinds) + 12

TocFileBytes(in) ==
    LET n == Len(in.kinds)
        at(i) == 4 + 8 * (i - 1)
    IN  <<0, 0, 4, 0>>
        \o Concatenate([i \in 1..n |-> SectionBytes(at(i), <<>>, FALSE)])
        \o Concatenate([i \in 1..n |->
                ToBytes4(in.kinds[i])
                \o ToBytes4(IF in.bad = i THEN TocFileLen(in) + 4 ELSE at(i))])
        \o (IF in.footer THEN <<67, 108, 97, 114, 105, 115, 115, 97>>
            ELSE <<67, 108, 97, 114, 105, 115, 115, 65>>)
        \o ToBytes4(4 + 8 * n + in.shift)

\* _validate: data[-12:-4].tobytes() == b"Clarissa"
validate(mv) == PySlice(mv, -12, -4) = <<67, 108, 97, 114, 105, 115, 115, 97>>

\* Python's //, which rounds towards minus infinity.
FloorDiv(a, b) == IF a >= 0 THEN a \div b ELSE -((-a + b - 1) \div b)

NoToc == [ok |-> FALSE, toc |-> <<>>]

\* The second loop of _read_toc, from section s on: SectionType(types[s])
\* raises for a value that names no section; a type listed twice keeps
\* its last entry.
RECURSIVE TocEntries(_, _, _, _)
TocEntries(types, offsets, s, toc) ==
    IF s > Len(types) THEN [ok |-> TRUE, toc |-> toc]
    ELSE IF ~SectionTypeOk(types[s]) THEN NoToc
    ELSE TocEntries(types, offsets, s + 1,
                    DictSet(toc, SectionType(types[s]),
                            [offset |-> offsets[s],
                             size |-> offsets[s + 1] - offsets[s]]))

\* _read_toc. The words of the files of the model are below 2^31.
read_toc(data) ==
    LET len == Len(data.mv)
        datasize == Val(get_int32(data, -4))
        nsections == FloorDiv(data.abspos + len - 12 - datasize, 8)
        toc_start == len - 12 - 8 * nsections
        types == [s \in 1..nsections |-> Val(get_int32(data, toc_start + 8 * (s - 1)))]
        offsets == [s \in 1..nsections |->
                        Val(get_int32(data, toc_start + 8 * (s - 1) + 4))]
                   \o <<toc_start>>
    IN  TocEntries(types, offsets, 1, <<>>)

\* self._data[s.offset:s.offset+s.size] for s = self._toc[name], and the
\* Section made over it.
TocSection(o, name) ==
    LET e == DictGet(o.toc, name)
    IN  SectionInit(GetItem(o.data, e.offset, e.offset + e.size))

\* A section the TOC must list (self._toc[name] raises KeyError) is read.
TocSectionOk(o, name) == DictHas(o.toc, name) /\ TocSection(o, name).ok

\* SweepSection.__init__ over a section whose body holds the SignalDefs
\* defs: one read_signaldef, which takes the first; what follows it is
\* left unread.
SweepSectionInit(data, defs) ==
    LET sec == SectionInit(data)
    IN  IF ~sec.ok \/ defs = <<>> THEN [ok |-> FALSE, sweep_def |-> NoSignalDef]
        ELSE [ok |-> TRUE, sweep_def |-> Head(defs)]

NoTocObj == [data |-> MemoryViewAbs(<<>>, 0), toc |-> <<>>, is_sweep |-> FALSE,
             read |-> <<>>, has_sweep_section |-> FALSE, sweep_def |-> NoSignalDef]

TocIdle ==
    /\ tocIn = [kinds |-> <<>>, sweeps |-> FALSE, footer |-> FALSE, shift |-> 0,
                bad |-> 0, sweepdefs |-> <<>>]
    /\ tocPc = "idle"
    /\ tocObj = NoTocObj

TocStart ==
    /\ tocIn \in TocInputs
    /\ tocPc = "open"
    /\ tocObj = NoTocObj

\* __init__ up to the test of the footer: the file is read and its
\* signature asserted.
TocOpen ==
    /\ tocPc = "open"
    /\ LET data == MemoryViewAbs(TocFileBytes(tocIn), 0)
           signature == read_int32(data, TRUE).val
       IN  /\ tocObj' = [tocObj EXCEPT !.data = data]
           /\ tocPc' = IF signature \notin {<<2, 0>>, <<3, 0>>, <<4, 0>>, <<5, 0>>}
                       THEN "failed"
                       ELSE IF validate(data.mv) THEN "toc" ELSE "index"
    /\ UNCHANGED <<tocIn, notToc>>

TocReadToc ==
    /\ tocPc = "toc"
    /\ LET r == read_toc(tocObj.data)
       IN  IF r.ok
           THEN /\ tocObj' = [tocObj EXCEPT !.toc = r.toc]
                /\ tocPc' = "header"
           ELSE /\ tocPc' = "failed"
                /\ UNCHANGED tocObj
    /\ UNCHANGED <<tocIn, notToc>>

\* _read_header, for a file with a TOC.
TocReadHeader ==
    /\ tocPc = "header"
    /\ IF TocSectionOk(tocObj, "HEADER")
       THEN /\ tocObj' = [tocObj EXCEPT !.is_sweep = tocIn.sweeps,
                                        !.read = Append(@, "HEADER")]
            /\ tocPc' = "defs"
       ELSE /\ tocPc' = "failed"
            /\ UNCHANGED tocObj
    /\ UNCHANGED <<tocIn, notToc>>

\* _read_defs, for a file with a TOC: the Type section, the Sweep section
\* of a swept file, the Trace section if the TOC lists one.
TocReadDefs ==
    /\ tocPc = "defs"
    /\ LET sweep == tocObj.is_sweep
           trace == DictHas(tocObj.toc, "TRACE")
           e == DictGet(tocObj.toc, "SWEEP")
           ss == SweepSectionInit(GetItem(tocObj.data, e.offset, e.offset + e.size),
                                  tocIn.sweepdefs)
       IN  IF /\ TocSectionOk(tocObj, "TYPE")
              /\ sweep => (DictHas(tocObj.toc, "SWEEP") /\ ss.ok)
              /\ trace => TocSection(tocObj, "TRACE").ok
           THEN /\ tocObj' = [tocObj EXCEPT
                                 !.has_sweep_section = sweep,
                                 !.sweep_def = IF sweep THEN ss.sweep_def ELSE @,
                                 !.read =
                                 @ \o <<"TYPE">>
                                   \o (IF sweep THEN <<"SWEEP">> ELSE <<>>)
                                   \o (IF trace THEN <<"TRACE">> ELSE <<>>)]
                /\ tocPc' = "traces"
           ELSE /\ tocPc' = "failed"
                /\ UNCHANGED tocObj
    /\ UNCHANGED <<tocIn, notToc>>

\* _read_traces: the Value section. A swept file without a Trace section
\* has no self._trace_section to hand to SweepValueSection.
TocReadTraces ==
    /\ tocPc = "traces"
    /\ IF /\ TocSectionOk(tocObj, "VALUE")
          /\ tocObj.is_sweep => DictHas(tocObj.toc, "TRACE")
       THEN /\ tocObj' = [tocObj EXCEPT !.read = Append(@, "VALUE")]
            /\ tocPc' = "loaded"
       ELSE /\ tocPc' = "failed"
            /\ UNCHANGED tocObj
    /\ UNCHANGED <<tocIn, notToc>>

TocStep ==
    \/ TocOpen
    \/ TocReadToc
    \/ TocReadHeader
    \/ TocReadDefs
    \/ TocReadTraces

(* C19: loading a file with the Clarissa footer fails, and gives no        *)
(* object, when file_size - 12 - data_size is negative or no multiple of   *)
(* 8, or when the offset of a TOC entry lies outside the file.             *)
C19_BadFooterFails ==
    LET mv == TocFileBytes(tocIn)
        rest == Len(mv) - 12 - Val(get_int32(MemoryViewAbs(mv, 0), -4))
    IN  (/\ tocIn.footer
         /\ \/ rest < 0
            \/ rest % 8 # 0
            \/ tocIn.bad # 0)
            => tocPc # "loaded"

(* C20: a Sweep section with more than one top-level sweep SignalDef is    *)
(* rejected at load; a file is taken as swept only with exactly one.       *)
C20_OneSweepOnly ==
    /\ (tocIn.sweeps /\ Len(tocIn.sweepdefs) > 1) => tocPc # "loaded"
    /\ (tocPc = "loaded" /\ tocObj.has_sweep_section) => Len(tocIn.sweepdefs) = 1

RECURSIVE C29_SumSizes(_, _)
C29_SumSizes(toc, k) ==
    IF k > Len(toc) THEN 0 ELSE toc[k].v.size + C29_SumSizes(toc, k + 1)

(* C29: for every regular PSF file that loads, the (offset, size) ranges   *)
(* recorded from the TOC partition the body: every size is non-negative,   *)
(* no two ranges overlap, there is one range per TOC entry, and together   *)
(* they cover exactly the bytes from the first section's offset up to the  *)
(* TOC start.                                                              *)
C29_TocPartitions ==
    tocPc = "loaded" =>
        LET toc == tocObj.toc
            len == Len(tocObj.data.mv)
            nsections == FloorDiv(len - 12 - Val(get_int32(tocObj.data, -4)), 8)
            toc_start == len - 12 - 8 * nsections
            first == toc[1].v.offset
        IN  /\ Len(toc) = nsections
            /\ \A i \in 1..Len(toc) :
                   /\ toc[i].v.size >= 0
                   /\ first <= toc[i].v.offset
                   /\ toc[i].v.offset + toc[i].v.size <= toc_start
            /\ \A i, j \in 1..Len(toc) :
                   i # j => \/ toc[i].v.offset + toc[i].v.size <= toc[j].v.offset
                            \/ toc[j].v.offset + toc[j].v.size <= toc[i].v.offset
            /\ C29_SumSizes(toc, 1) = toc_start - first

----------------------------------------------------------------------------
(* The sidecar file of a PSF-XL index: when it is opened, read and closed  *)
(* by the constructor and by get_signals, step by step, while the file on  *)
(* disk may be rewritten by others.                                        *)

\* Bounds: the versions of the sidecar on disk and the calls of get_signals.
MaxVersions == 2
MaxCalls == 2

SidecarBatches == {<<>>, <<"a">>, <<"a", "b">>}

\* What a chunk read through the DataBuffer sees when the buffer holds
\* buf and the disk holds disk: a buffer reading the file at each read.
DataBufferFromDisk(buf, disk) == disk
\* DataBuffer.read slices self._data, which __init__ filled by f.read().
DataBufferData(buf, disk) == buf

ScNew == [pc |-> "new", opened |-> <<>>, calls |-> 0, handle |-> "none", buf |-> -1,
          names |-> <<>>, reads |-> <<>>]

ScIdle ==
    /\ scDisk = 0
    /\ sc = [ScNew EXCEPT !.pc = "idle"]

ScStart ==
    /\ scDisk = 0
    /\ sc = ScNew

\* PsfBinFile.__init__ on an index file: open(path) of the index itself.
ScConstruct ==
    /\ sc.pc = "new"
    /\ sc' = [sc EXCEPT !.pc = "loaded", !.opened = Append(@, "index")]
    /\ UNCHANGED <<scDisk, notSidecar>>

\* get_signals(names) begins: open(fn, 'rb').
ScOpen ==
    /\ sc.pc = "loaded"
    /\ sc.calls < MaxCalls
    /\ \E ns \in SidecarBatches :
        sc' = [sc EXCEPT !.pc = "opened", !.opened = Append(@, "sidecar"),
                         !.calls = @ + 1, !.handle = "open", !.names = ns,
                         !.reads = <<>>, !.buf = -1]
    /\ UNCHANGED <<scDisk, notSidecar>>

\* rdr = DataBuffer(f): self._data = f.read()
ScDataBuffer ==
    /\ sc.pc = "opened"
    /\ sc' = [sc EXCEPT !.pc = "buffered", !.buf = scDisk]
    /\ UNCHANGED <<scDisk, notSidecar>>

\* The end of the with block.
ScClose ==
    /\ sc.pc = "buffered"
    /\ sc' = [sc EXCEPT !.pc = "loop", !.handle = "closed"]
    /\ UNCHANGED <<scDisk, notSidecar>>

\* One turn of the loop over names: read_xl_signal(rdr, ...).
ScReadSignal ==
    /\ sc.pc = "loop"
    /\ sc.names # <<>>
    /\ sc' = [sc EXCEPT !.names = Tail(@),
                         !.reads = Append(@, [name |-> Head(sc.names),
                                              content |-> DataBufferData(sc.buf, scDisk),
                                              handle |-> sc.handle])]
    /\ UNCHANGED <<scDisk, notSidecar>>

\* return result
ScReturn ==
    /\ sc.pc = "loop"
    /\ sc.names = <<>>
    /\ sc' = [sc EXCEPT !.pc = "loaded"]
    /\ UNCHANGED <<scDisk, notSidecar>>

\* Another process rewrites the sidecar.
ScRewritten ==
    /\ sc.pc # "new"
    /\ scDisk < MaxVersions
    /\ scDisk' = scDisk + 1
    /\ UNCHANGED <<sc, notSidecar>>

SidecarStep ==
    \/ ScConstruct
    \/ ScOpen
    \/ ScDataBuffer
    \/ ScClose
    \/ ScReadSignal
    \/ ScReturn
    \/ ScRewritten

ScOpens == Cardinality({i \in 1..Len(sc.opened) : sc.opened[i] = "sidecar"})

(* C21: the sidecar is not opened during construction; each get_signals    *)
(* call opens it once, however many names are asked for; every read of the *)
(* batch uses the content that open obtained; the handle is closed no      *)
(* later than the last read of the call.                                   *)
C21_SidecarOpenedOncePerBatch ==
    /\ sc.calls = 0 => ScOpens = 0
    /\ ScOpens = sc.calls
    /\ \A i \in 1..Len(sc.reads) : sc.reads[i].content = sc.buf
    /\ sc.reads # <<>> => sc.handle = "closed"
    /\ sc.pc = "loaded" => sc.handle # "open"

\* A second batch has read two signals after the sidecar was rewritten
\* under it.
C21_Witness ==
    /\ sc.calls = 2
    /\ Len(sc.reads) = 2
    /\ scDisk # sc.buf

----------------------------------------------------------------------------
(* The decoders that are functions of their input: each is applied once to *)
(* an input drawn from a bounded set.                                      *)

FnIdle ==
    /\ fnPc = "idle"
    /\ fnIn = <<>>
    /\ fnOut = <<>>

(* hex2signed, applied by read_xl_chunk to every group of the marker that  *)
(* matched. A field is a text of the characters 0-9 and a-f, kept as its   *)
(* ASCII codes.                                                            *)

\* assert len(h) <= 16
HexWidth == 16
\* Bound: the fields that are enumerated in full have at most this length.
MaxHexShort == 3
\* The characters 0, 7, 8, a and f.
HexAlphabet == {48, 55, 56, 97, 102}

\* The fields: all short ones, and of every length up to one more than
\* hex2signed accepts those made of a leading character and a repeated one.
HexFields ==
    UNION {[1..n -> HexAlphabet] : n \in 1..MaxHexShort}
    \cup {[i \in 1..n |-> IF i = 1 THEN lead ELSE fill] :
             n \in (MaxHexShort + 1)..(HexWidth + 1), lead \in HexAlphabet,
             fill \in HexAlphabet}

\* The value of a hexadecimal character.
Nibble(c) == IF c <= 57 THEN c - 48 ELSE c - 87

\* A padding that repeats the leading bit of the field.
rjust_sign(h, width, fillchar) ==
    IF Len(h) >= width THEN h
    ELSE [i \in 1..(width - Len(h)) |-> IF Nibble(h[1]) >= 8 THEN 102 ELSE fillchar] \o h
\* str.rjust(width, fillchar)
rjust(h, width, fillchar) ==
    IF Len(h) >= width THEN h
    ELSE [i \in 1..(width - Len(h)) |-> fillchar] \o h

\* bytes.fromhex on a text of an even number of hexadecimal characters.
fromhex(h) == [i \in 1..(Len(h) \div 2) |-> 16 * Nibble(h[2 * i - 1]) + Nibble(h[2 * i])]

\* A big-endian number plus one, in the same number of bytes.
RECURSIVE Increment(_)
Increment(bs) ==
    IF bs = <<>> THEN <<>>
    ELSE IF bs[Len(bs)] = 255 THEN Increment(SubSeq(bs, 1, Len(bs) - 1)) \o <<0>>
    ELSE SubSeq(bs, 1, Len(bs) - 1) \o <<bs[Len(bs)] + 1>>

\* int.from_bytes(bs, signed=True), big-endian two's complement. The
\* integer is kept as its sign and the bytes of its magnitude, without
\* leading zeros.
from_bytes_signed(bs) ==
    IF bs # <<>> /\ bs[1] >= 128
    THEN [neg |-> TRUE, mag |-> StripZeros(Increment([i \in 1..Len(bs) |-> 255 - bs[i]]))]
    ELSE [neg |-> FALSE, mag |-> StripZeros(bs)]

hex2signed(h) ==
    IF Len(h) > HexWidth
    THEN [ok |-> FALSE, neg |-> FALSE, mag |-> <<>>]
    ELSE LET v == from_bytes_signed(fromhex(rjust(h, HexWidth, 48)))
         IN  [ok |-> TRUE, neg |-> v.neg, mag |-> v.mag]

HexStart ==
    /\ fnPc = "hex2signed"
    /\ fnIn \in HexFields
    /\ fnOut = <<>>

\* chunk_props[k] = hex2signed(v)
HexApply ==
    /\ fnPc = "hex2signed"
    /\ fnPc' = "done"
    /\ fnOut' = hex2signed(fnIn)
    /\ UNCHANGED <<fnIn, notFn>>

\* The hexadecimal digits of a sequence of bytes.
C24_Nibbles(bs) ==
    [i \in 1..(2 * Len(bs)) |-> IF i % 2 = 1 THEN bs[(i + 1) \div 2] \div 16
                                ELSE bs[i \div 2] % 16]

\* The field extended to 16 digits by copies of its leading bit.
C24_SignExtended(h) ==
    [i \in 1..(HexWidth - Len(h)) |-> IF Nibble(h[1]) >= 8 THEN 102 ELSE 48] \o h

(* C24: every hex field of a chunk marker (at most 16 hex digits) is       *)
(* converted to a signed 64-bit integer by sign-extension from the field's *)
(* own width of 4 bits per digit: 16 f digits yield -1, and a shorter      *)
(* field whose leading bit is set yields a negative value.                 *)
C24_SignExtendedFromWidth ==
    (fnPc = "done" /\ Len(fnIn) <= HexWidth) =>
        /\ fnOut.ok
        /\ [neg |-> fnOut.neg, mag |-> fnOut.mag]
              = from_bytes_signed(fromhex(C24_SignExtended(fnIn)))
        /\ (Len(fnIn) = HexWidth /\ (\A i \in 1..HexWidth : fnIn[i] = 102))
              => (fnOut.neg /\ fnOut.mag = <<1>>)
        /\ Nibble(fnIn[1]) >= 8 => fnOut.neg

(* C24, amended: every hex field of at most 16 digits is converted to a    *)
(* signed 64-bit integer by zero-extension to 16 digits and a two's        *)
(* complement read: 16 f digits yield -1, a field of 16 digits is negative *)
(* exactly if its leading bit is set, and a shorter field yields its       *)
(* unsigned value, which is not negative, also when its leading bit is set.*)
C24_ZeroExtended ==
    (fnPc = "done" /\ Len(fnIn) <= HexWidth) =>
        /\ fnOut.ok
        /\ (Len(fnIn) = HexWidth /\ (\A i \in 1..HexWidth : fnIn[i] = 102))
              => (fnOut.neg /\ fnOut.mag = <<1>>)
        /\ Len(fnIn) = HexWidth => (fnOut.neg <=> Nibble(fnIn[1]) >= 8)
        /\ Len(fnIn) < HexWidth =>
              /\ ~fnOut.neg
              /\ StripZeros(C24_Nibbles(fnOut.mag))
                    = StripZeros([i \in 1..Len(fnIn) |-> Nibble(fnIn[i])])

C24_Witness ==
    /\ fnPc = "done"
    /\ Len(fnIn) < HexWidth
    /\ Nibble(fnIn[1]) >= 8
    /\ fnOut.ok
    /\ ~fnOut.neg
    /\ fnOut.mag # <<>>

----------------------------------------------------------------------------
(* read_properties, turn by turn of its loop, in its two versions:         *)
(* pypsf/psfbin_types.py and psfdata/psfbin_types.py. fnIn holds the       *)
(* version and the cursor, fnOut the dict d.                               *)

\* Bound: the properties of a block.
MaxProps == 2

\* The text psfxl_idx, as read_string would return it.
PsfxlIdxName == <<112, 115, 102, 120, 108, 95, 105, 100, 120>>

\* invalid = [0x03, 0x10, 0x11, 0x12]
PropTerminators == {<<3>>, <<16>>, <<17>>, <<18>>}

\* A string on the wire: its length, its bytes and the padding to 4 bytes.
StringBytes(str) == ToBytes4(Len(str)) \o str \o Zeros(StringPad(Len(str)))

\* A property of tag 0x24 followed by n bytes, the i-th of which is i.
XlIdxBytes(n) == ToBytes4(36) \o [i \in 1..n |-> i]

\* The properties a block is made of: the index tuple followed by 44, 48
\* and 52 bytes, an int32, a string, a double, a padding property and a
\* property of an unknown tag, each of the last five named n.
PropMenu ==
    {XlIdxBytes(44), XlIdxBytes(48), XlIdxBytes(52),
     ToBytes4(34) \o StringBytes(<<110>>) \o ToBytes4(7),
     ToBytes4(33) \o StringBytes(<<110>>) \o StringBytes(<<118, 97>>),
     ToBytes4(35) \o StringBytes(<<110>>) \o <<64, 9, 33, 251, 84, 68, 45, 24>>,
     ToBytes4(1) \o StringBytes(<<110>>),
     ToBytes4(5) \o StringBytes(<<110>>)}

RECURSIVE Flatten(_)
Flatten(seqs) == IF seqs = <<>> THEN <<>> ELSE Head(seqs) \o Flatten(Tail(seqs))

\* The blocks: properties, and then the end of the data or the next type.
PropBlocks ==
    {Flatten(ps) \o end : ps \in SeqsUpTo(PropMenu, MaxProps),
                          end \in {<<>>, ToBytes4(16)}}

\* read_int64 of psfdata's cursor: 8 bytes, big-endian.
read_int64(c, peek) ==
    Returned(FromBytes(PyUpto(c.mv, 8)), IF peek THEN c ELSE Consume(c, 8))

\* The fields of the tuple as the format is described: an int64, three
\* int32 and four doubles.
XlIdxFields_described(ver) ==
    <<"int64", "int32", "int32", "int32", "double", "double", "double", "double">>
\* case 0x24: the reads the tuple is made of, in their order.
XlIdxFields(ver) ==
    IF ver = "pypsf"
    THEN <<"int32", "int32", "int32", "int32", "double", "double", "double", "double">>
    ELSE <<"int64", "int32", "int32", "double", "double", "double", "double">>

\* A tuple of reads, left to right; a read that raises ends them.
RECURSIVE ReadFields(_, _, _)
ReadFields(c, kinds, vals) ==
    IF kinds = <<>> THEN Returned(vals, c)
    ELSE LET r == IF Head(kinds) = "int32" THEN read_int32(c, FALSE)
                  ELSE IF Head(kinds) = "int64" THEN read_int64(c, FALSE)
                  ELSE read_double(c, FALSE)
         IN  IF ~r.ok THEN Failed(c)
             ELSE ReadFields(r.c, Tail(kinds), Append(vals, r.val))

\* while len(data) and data.read_int32(peek=True) not in invalid
PropsGoOn(c) == Len(c.mv) > 0 /\ read_int32(c, TRUE).val \notin PropTerminators

\* The body of the loop, once: [ok, c, d].
read_property(ver, c, d) ==
    LET t == read_int32(c, FALSE)
        nm == IF t.val = <<36>> THEN Returned(PsfxlIdxName, t.c) ELSE read_string(t.c)
        v == IF t.val = <<33>> THEN read_string(nm.c)
             ELSE IF t.val = <<34>> THEN read_int32(nm.c, FALSE)
             ELSE IF t.val = <<35>> THEN read_double(nm.c, FALSE)
             ELSE IF t.val = <<36>> THEN ReadFields(nm.c, XlIdxFields(ver), <<>>)
             ELSE Failed(nm.c)
    IN  IF ~nm.ok THEN [ok |-> FALSE, c |-> nm.c, d |-> d]
        ELSE IF t.val \in {<<1>>, <<4>>} THEN [ok |-> TRUE, c |-> nm.c, d |-> d]
        ELSE IF ~v.ok THEN [ok |-> FALSE, c |-> v.c, d |-> d]
        ELSE [ok |-> TRUE, c |-> v.c, d |-> DictSet(d, nm.val, v.val)]

PropsStart ==
    /\ fnPc = "props"
    /\ \E ver \in {"pypsf", "psfdata"}, bs \in PropBlocks :
           fnIn = [ver |-> ver, c |-> MemoryViewAbs(bs, 0)]
    /\ fnOut = <<>>

PropsTurn ==
    /\ fnPc = "props"
    /\ PropsGoOn(fnIn.c)
    /\ LET r == read_property(fnIn.ver, fnIn.c, fnOut)
       IN  /\ fnPc' = IF r.ok THEN "props" ELSE "raised"
           /\ fnIn' = [fnIn EXCEPT !.c = r.c]
           /\ fnOut' = r.d
    /\ UNCHANGED notFn

\* return d
PropsReturn ==
    /\ fnPc = "props"
    /\ ~PropsGoOn(fnIn.c)
    /\ fnPc' = "done"
    /\ UNCHANGED <<fnIn, fnOut, notFn>>

PropsStep ==
    \/ PropsTurn
    \/ PropsReturn

\* The payload of the property the cursor stands at, from byte a to byte b
\* (counted from 1), as a number.
C25_Field(c, a, b) == FromBytes(SubSeq(c.mv, 4 + a, 4 + b))
\* The same bytes as a double.
C25_Double(c, a) == SubSeq(c.mv, 4 + a, 4 + a + 7)

\* A turn of the loop on a property of tag 0x24 that is followed by at
\* least n bytes.
C25_TurnOnXlIdx(n) ==
    /\ fnPc = "props"
    /\ fnPc' # fnPc \/ fnIn' # fnIn
    /\ PropsGoOn(fnIn.c)
    /\ read_int32(fnIn.c, TRUE).val = <<36>>
    /\ Len(fnIn.c.mv) >= 4 + n

----------------------------------------------------------------------------
(* get_complex_dtype, applied to the sweep and the entries of a Trace      *)
(* section as SweepValueSection.__init__ applies it, from dt_pos = 0.      *)

\* Bound: the entries of the Trace section.
MaxDtypeItems == 3

\* The entries: a signal of each primitive type, and groups of two, one
\* and no children.
DtypeEntries ==
    { SignalDef(1, "a", TypeDef("V", DOUBLE, "V"), <<>>),
      SignalDef(2, "b", TypeDef("flag", INT8, ""), <<>>),
      SignalDef(3, "c", TypeDef("n", INT32, ""), <<>>),
      SignalDef(4, "d", TypeDef("Z", COMPLEXDOUBLE, "Ohm"), <<>>),
      Group(5, "g", <<SignalDef(6, "e", TypeDef("flag", INT8, ""), <<>>),
                      SignalDef(7, "f", TypeDef("V", DOUBLE, "V"), <<>>)>>),
      Group(8, "h", <<SignalDef(9, "i", TypeDef("n", INT32, ""), <<>>)>>),
      Group(10, "k", <<>>) }

\* [sweep_def] + list(traces.values())
DtypeItems(entries) ==
    <<SignalDef(11, "t", TypeDef("sweep", DOUBLE, "s"), <<>>)>>
    \o DictValues(TraceSectionInit(entries, 1, <<>>, <<>>).traces)

DtypeStart ==
    /\ fnPc = "dtype"
    /\ \E entries \in SeqsUpTo(DtypeEntries, MaxDtypeItems) : fnIn = DtypeItems(entries)
    /\ fnOut = <<>>

\* self.complex_dtype = get_complex_dtype(self.dt_pos, sweep_def, traces)
DtypeApply ==
    /\ fnPc = "dtype"
    /\ LET fields == get_complex_dtype(0, fnIn)
       IN  IF DtypeOk(fields)
           THEN fnPc' = "done" /\ fnOut' = fields
           ELSE fnPc' = "raised" /\ fnOut' = <<>>
    /\ UNCHANGED <<fnIn, notFn>>

\* For every field of the record, in order, the position among the items
\* of the item it belongs to.
RECURSIVE C26_EntryOf(_, _)
C26_EntryOf(items, k) ==
    IF k > Len(items) THEN <<>>
    ELSE [i \in 1..(IF items[k].group THEN Len(items[k].children) ELSE 1) |-> k]
         \o C26_EntryOf(items, k + 1)

C26_Size(type) ==
    IF type = INT8 THEN 1 ELSE IF type = INT32 THEN 4 ELSE IF type = DOUBLE THEN 8 ELSE 16

\* The fields are the sweep and then the traces in declared order, the
\* children of a group in the place of the group.
C26_FieldsInOrder ==
    LET flat == flattened(fnIn)
    IN  /\ Len(fnOut) = Len(flat)
        /\ \A i \in 1..Len(flat) :
               fnOut[i].name = flat[i].name /\ fnOut[i].type = flat[i].typedef.typeid

(* C26: in the record description of the flat layout the fields are the    *)
(* sweep followed by all traces in declared order, group children          *)
(* flattened, and every field, also each child of a group, is preceded by  *)
(* its own 8-byte id gap: the first offset is start + 8 and each later one *)
(* is the previous offset plus the previous size plus 8, with sizes 1, 4,  *)
(* 8, 16 for INT8, INT32, DOUBLE, COMPLEXDOUBLE.                           *)
C26_GapBeforeEveryField ==
    fnPc = "done" =>
        /\ C26_FieldsInOrder
        /\ fnOut[1].offset = 0 + 8
        /\ \A i \in 2..Len(fnOut) :
               fnOut[i].offset = fnOut[i - 1].offset + C26_Size(fnOut[i - 1].type) + 8

(* C26, amended: the fields are the sweep followed by all traces in        *)
(* declared order, group children flattened, and every top-level entry,    *)
(* the sweep, a trace or a group as a whole, is preceded by one 8-byte id  *)
(* gap, while the children of a group follow one another without a gap:    *)
(* the first offset is start + 8 and each later one is the previous offset *)
(* plus the previous size, plus 8 for every top-level entry begun since    *)
(* the previous field.                                                     *)
C26_GapBeforeEveryEntry ==
    fnPc = "done" =>
        /\ C26_FieldsInOrder
        /\ fnOut[1].offset = 0 + 8
        /\ LET entry == C26_EntryOf(fnIn, 1)
           IN  \A i \in 2..Len(fnOut) :
                   fnOut[i].offset = fnOut[i - 1].offset + C26_Size(fnOut[i - 1].type)
                                     + 8 * (entry[i] - entry[i - 1])

\* A record with a group of two children and a trace after it.
C26_Witness ==
    /\ fnPc = "done"
    /\ Len(fnOut) = 4
    /\ fnOut[2].name = "e" /\ fnOut[2].offset = 24
    /\ fnOut[3].name = "f" /\ fnOut[3].offset = 25
    /\ fnOut[4].name = "d" /\ fnOut[4].offset = 41

----------------------------------------------------------------------------
(* read_value_entry: an entry of the simple Value section, read against    *)
(* the TypeDef its reference names. A TypeDef is here (name, typeid,       *)
(* struct_members); a struct value is a dict of its members' values.       *)

\* Bound: the members of a struct.
MaxMembers == 2

Prim(name, typeid) == [name |-> name, typeid |-> typeid, struct_members |-> <<>>]
Struct(name, members) == [name |-> name, typeid |-> STRUCT, struct_members |-> members]
PrimTypeDefs ==
    {Prim("p", INT8), Prim("q", INT32), Prim("r", DOUBLE), Prim("z", COMPLEXDOUBLE)}
MemberTypeDefs == PrimTypeDefs \cup {Struct("s", <<Prim("q", INT32)>>)}
ValueTypeDefs ==
    PrimTypeDefs \cup {Struct("v", ms) : ms \in SeqsUpTo(MemberTypeDefs, MaxMembers)}

\* The bytes a value of a TypeDef takes in the file.
RECURSIVE ValueWireSize(_)
ValueWireSize(td) ==
    IF td.typeid = STRUCT
    THEN IF td.struct_members = <<>> THEN 0
         ELSE ValueWireSize(Head(td.struct_members))
              + ValueWireSize(Struct(td.name, Tail(td.struct_members)))
    ELSE IF td.typeid = COMPLEXDOUBLE THEN 16
    ELSE IF td.typeid = DOUBLE THEN 8
    ELSE 4

\* An entry named a with id 1: the header, the reference, the value, and
\* its properties, here none or a string property named n.
EntryBytes(ref, td, props) ==
    ToBytes4(16) \o ToBytes4(1) \o StringBytes(<<97>>) \o ToBytes4(ref)
    \o [i \in 1..ValueWireSize(td) |-> 64 + i] \o props

\* MemoryViewAbs.read_cdouble: raise NotImplementedError()
read_cdouble(c) == Failed(c)

\* read_id: (id, name, is_group), or the failed assert on the kind.
read_id(c) ==
    LET kind == read_int32(c, FALSE)
        id == read_int32(kind.c, FALSE)
        name == read_string(id.c)
    IN  IF kind.val \notin {<<16>>, <<17>>} THEN Failed(kind.c)
        ELSE IF ~name.ok THEN Failed(name.c)
        ELSE Returned([id |-> id.val, name |-> name.val, is_group |-> kind.val = <<17>>],
                      name.c)

\* The one element of a set of one element.
Only(S) == CHOOSE x \in S : TRUE

\* The values of the members of a struct, into the dict d.
RECURSIVE read_value(_, _)
RECURSIVE ReadMembers(_, _, _)
ReadMembers(c, members, d) ==
    IF members = <<>> THEN Returned(d, c)
    ELSE Only({IF ~r.ok THEN Failed(r.c)
               ELSE ReadMembers(r.c, Tail(members), DictSet(dd, Head(members).name, r.val)) :
               r \in {read_value(c, Head(members))}, dd \in {d}})

read_value(c, datatype) ==
    IF datatype.typeid \in {INT8, INT32} THEN read_int32(c, FALSE)
    ELSE IF datatype.typeid = DOUBLE THEN read_double(c, FALSE)
    ELSE IF datatype.typeid = COMPLEXDOUBLE THEN read_cdouble(c)
    ELSE IF datatype.typeid = STRUCT THEN ReadMembers(c, datatype.struct_members, <<>>)
    ELSE Failed(c)

\* read_properties as a whole: the turns of its loop to its end.
RECURSIVE read_properties(_, _, _)
read_properties(ver, c, d) ==
    IF ~PropsGoOn(c) THEN [ok |-> TRUE, c |-> c, d |-> d]
    ELSE Only({IF ~r.ok THEN r ELSE read_properties(ver, r.c, r.d) :
               r \in {read_property(ver, c, d)}})

\* read_value_entry: (id, name, value, properties) and the cursor after it.
ReadValueAndProperties(h, reference, typedefs) ==
    Only({IF ~value.ok THEN Failed(value.c)
          ELSE Only({IF ~properties.ok THEN Failed(properties.c)
                     ELSE Returned([id |-> h.val.id, name |-> h.val.name,
                                    value |-> value.val, properties |-> properties.d],
                                   properties.c) :
                     properties \in {read_properties("psfdata", value.c, <<>>)}}) :
          value \in {read_value(reference.c, DictGet(typedefs, reference.val))}})

read_value_entry(c, typedefs) ==
    Only({IF ~h.ok \/ h.val.is_group THEN Failed(h.c)
          ELSE Only({IF reference.val = <<>> \/ ~DictHas(typedefs, reference.val)
                     THEN Failed(reference.c)
                     ELSE ReadValueAndProperties(h, reference, typedefs) :
                     reference \in {read_int32(h.c, FALSE)}}) :
          h \in {read_id(c)}})

\* The entry is followed by the end of the data or by the next entry.
ValueStart ==
    /\ fnPc = "value"
    /\ \E td \in ValueTypeDefs, ref \in 0..2, end \in {<<>>, ToBytes4(16)},
          props \in {<<>>, ToBytes4(33) \o StringBytes(<<110>>) \o StringBytes(<<118, 97>>)} :
           fnIn = [td |-> td, ref |-> ref, props |-> props, end |-> end,
                   c |-> MemoryViewAbs(EntryBytes(ref, td, props) \o end, 0)]
    /\ fnOut = <<>>

\* id, name, value, properties = read_value_entry(valuedata, typedefs)
ValueApply ==
    /\ fnPc = "value"
    /\ LET r == read_value_entry(fnIn.c, <<[k |-> <<1>>, v |-> fnIn.td]>>)
       IN  /\ fnPc' = IF r.ok THEN "done" ELSE "raised"
           /\ fnOut' = r
    /\ UNCHANGED <<fnIn, notFn>>

\* The value a TypeDef describes, read from bytes: an integer of 4 bytes,
\* a double of 8, a pair of doubles, or the mapping of a struct's members.
RECURSIVE C27_Value(_, _)
RECURSIVE C27_Members(_, _, _)
C27_Members(members, bytes, d) ==
    IF members = <<>> THEN d
    ELSE C27_Members(Tail(members),
                     SubSeq(bytes, ValueWireSize(Head(members)) + 1, Len(bytes)),
                     DictSet(d, Head(members).name, C27_Value(Head(members), bytes)))

C27_Value(td, bytes) ==
    IF td.typeid \in {INT8, INT32} THEN FromBytes(SubSeq(bytes, 1, 4))
    ELSE IF td.typeid = DOUBLE THEN SubSeq(bytes, 1, 8)
    ELSE IF td.typeid = COMPLEXDOUBLE THEN <<SubSeq(bytes, 1, 8), SubSeq(bytes, 9, 16)>>
    ELSE C27_Members(td.struct_members, bytes, <<>>)

(* C27: in a simple Value section the literal read for an entry follows    *)
(* its TypeDef: INT8 and INT32 consume 4 bytes each and yield an integer,  *)
(* DOUBLE consumes 8 bytes, COMPLEXDOUBLE consumes 16 bytes and yields the *)
(* pair (real, imag), STRUCT consumes the payloads of its members in order *)
(* and yields the ordered mapping member_name -> member_value; no kind of  *)
(* TypeDef makes the read fail.                                            *)
C27_ValueFollowsTypeDef ==
    (fnPc \in {"done", "raised"} /\ fnIn.ref = 1) =>
        /\ fnPc = "done"
        /\ fnOut.ok
        /\ fnOut.c.abspos = Len(fnIn.c.mv) - Len(fnIn.end)
        /\ fnOut.val.value
             = C27_Value(fnIn.td, SubSeq(fnIn.c.mv, 21, 20 + ValueWireSize(fnIn.td)))

----------------------------------------------------------------------------
(* A PSF-XL index file, which has no footer and no TOC: its sections are   *)
(* read one after the other, each from the tail the section before left.  *)
(* fnIn is what the file is written from, fnOut the object: self._data,    *)
(* self._rest, is_sweep, and the sections made so far, each with the       *)
(* cursor it was made over. What the bodies hold is not modelled: whether  *)
(* the Header has PSF sweeps != 0 is given with the file.                  *)

\* Bound: the sections a file is written with.
MaxSections == 4

\* A file is written from: its signature; the number of its sections and
\* the length of the body of each; whether the Header says the file is
\* swept; one section (0: none) whose end offset is off by skew; the
\* bytes the file lacks at its end.
IndexInputs ==
    {in \in [sig : {<<0, 0, 4, 0>>, <<0, 0, 6, 0>>}, n : 2..MaxSections, body : {0, 4},
             sweeps : BOOLEAN, skewed : 0..MaxSections, skew : {-4, 0, 4},
             cut : {0, 2, 6}] :
        /\ in.skewed <= in.n
        /\ in.skewed = 0 <=> in.skew = 0}

IndexFileBytes(in) ==
    CutBody(in.sig
            \o Concatenate([i \in 1..in.n |->
                    SectionBytes(4 + (8 + in.body) * (i - 1)
                                 + (IF in.skewed = i THEN in.skew ELSE 0),
                                 Zeros(in.body), FALSE)]),
            in.cut)

NoIndexObj == [data |-> MemoryViewAbs(<<>>, 0), rest |-> MemoryViewAbs(<<>>, 0),
               is_sweep |-> FALSE, sections |-> <<>>]

\* A section made over the cursor from, under the name of its class.
Made(name, from, sec) ==
    [name |-> name, from |-> from, endpos |-> sec.endpos, data |-> sec.data,
     tail |-> sec.tail]

IndexStart ==
    /\ fnPc = "open"
    /\ fnIn \in IndexInputs
    /\ fnOut = NoIndexObj

\* __init__ up to _read_header: the file is read, its signature asserted,
\* and no footer found.
IndexOpen ==
    /\ fnPc = "open"
    /\ LET data == MemoryViewAbs(IndexFileBytes(fnIn), 0)
           signature == read_int32(data, TRUE).val
       IN  /\ fnOut' = [fnOut EXCEPT !.data = data]
           /\ fnPc' = IF signature \notin {<<2, 0>>, <<3, 0>>, <<4, 0>>, <<5, 0>>}
                          \/ validate(data.mv)
                      THEN "failed" ELSE "header"
    /\ UNCHANGED <<fnIn, notFn>>

\* _read_header of an index file: HeaderSection(self._data[4:])
IndexReadHeader ==
    /\ fnPc = "header"
    /\ LET from == GetItemFrom(fnOut.data, 4)
           sec == SectionInit(from)
       IN  IF sec.ok
           THEN /\ fnOut' = [fnOut EXCEPT !.rest = sec.tail, !.is_sweep = fnIn.sweeps,
                                          !.sections = Append(@, Made("HEADER", from, sec))]
                /\ fnPc' = "defs"
           ELSE /\ fnPc' = "failed"
                /\ UNCHANGED fnOut
    /\ UNCHANGED <<fnIn, notFn>>

\* _read_defs of an index file: TypeSection(self._rest), SweepSection of
\* a swept file and TraceSection, each over the tail of the one before.
IndexReadDefs ==
    /\ fnPc = "defs"
    /\ LET type == SectionInit(fnOut.rest)
           sweep == SectionInit(type.tail)
           rest == IF fnOut.is_sweep THEN sweep.tail ELSE type.tail
           trace == SectionInit(rest)
       IN  IF type.ok /\ (fnOut.is_sweep => sweep.ok) /\ trace.ok
           THEN /\ fnOut' = [fnOut EXCEPT
                                !.rest = rest,
                                !.sections =
                                    @ \o <<Made("TYPE", fnOut.rest, type)>>
                                      \o (IF fnOut.is_sweep
                                          THEN <<Made("SWEEP", type.tail, sweep)>>
                                          ELSE <<>>)
                                      \o <<Made("TRACE", rest, trace)>>]
                /\ fnPc' = "loaded"
           ELSE /\ fnPc' = "failed"
                /\ UNCHANGED fnOut
    /\ UNCHANGED <<fnIn, notFn>>

IndexStep ==
    \/ IndexOpen
    \/ IndexReadHeader
    \/ IndexReadDefs

(* C28: parsing a section from a cursor at its 0x15 tag yields a body      *)
(* cursor that covers exactly the bytes from just after the two leading    *)
(* int32s up to end_abspos (body.abspos + len(body) = end_abspos) and a    *)
(* tail cursor with tail.abspos = end_abspos that holds the rest of the    *)
(* parent; in a PSF-XL index file Header, Type, Sweep (when swept) and     *)
(* Trace are each parsed from the tail of the section before, the Header   *)
(* from offset 4.                                                          *)
C28_SectionsFramed ==
    LET file == IndexFileBytes(fnIn)
        secs == fnOut.sections
    IN  /\ \A i \in 1..Len(secs) :
               LET sec == secs[i]
                   end == Val(sec.endpos)
               IN  /\ sec.data.abspos = sec.from.abspos + 8
                   /\ sec.data.abspos + Len(sec.data.mv) = end
                   /\ sec.data.mv = SubSeq(file, sec.from.abspos + 8 + 1, end)
                   /\ sec.tail.abspos = end
                   /\ sec.tail.mv = SubSeq(file, end + 1, Len(file))
                   /\ sec.data.mv \o sec.tail.mv = PyFrom(sec.from.mv, 8)
                   /\ IF i = 1
                      THEN sec.from = MemoryViewAbs(SubSeq(file, 5, Len(file)), 4)
                      ELSE sec.from = secs[i - 1].tail
        /\ Names(secs) \in {<<>>, <<"HEADER">>, <<"HEADER", "TYPE", "TRACE">>,
                              <<"HEADER", "TYPE", "SWEEP", "TRACE">>}
        /\ fnPc = "loaded" =>
               Names(secs) = IF fnIn.sweeps THEN <<"HEADER", "TYPE", "SWEEP", "TRACE">>
                             ELSE <<"HEADER", "TYPE", "TRACE">>

\* A swept index file with bodies of 4 bytes is loaded.
C28_Witness ==
    /\ fnPc = "loaded"
    /\ Len(fnOut.sections) = 4
    /\ fnOut.sections[3].name = "SWEEP"
    /\ fnOut.sections[3].from.abspos = 28
    /\ Len(fnOut.sections[3].data.mv) = 4
    /\ fnOut.sections[4].from.abspos = 40

----------------------------------------------------------------------------
(* The specifications.                                                     *)

CursorInit == CursorStart /\ XlIdle /\ GdIdle /\ FacIdle /\ TocIdle /\ ScIdle /\ FnIdle
SpecCursor == CursorInit /\ [][CursorStep]_vars

XlInit == XlStart /\ CursorIdle /\ GdIdle /\ FacIdle /\ TocIdle /\ ScIdle /\ FnIdle
SpecXl == XlInit /\ [][XlStep]_vars

WinInit == GdStart /\ CursorIdle /\ XlIdle /\ FacIdle /\ TocIdle /\ ScIdle /\ FnIdle
SpecWin == WinInit /\ [][GetDataStep]_vars

FacadeInit == FacStart /\ CursorIdle /\ XlIdle /\ GdIdle /\ TocIdle /\ ScIdle /\ FnIdle
SpecFacade == FacadeInit /\ [][FacadeStep]_vars

XlRunInit == XlRunStart /\ CursorIdle /\ GdIdle /\ FacIdle /\ TocIdle /\ ScIdle /\ FnIdle
\* Every step of read_xl_signal that can be taken is taken in the end.
SpecXlRun == XlRunInit /\ [][XlRunStep]_vars /\ WF_vars(XlRunStep)

TocInit == TocStart /\ CursorIdle /\ XlIdle /\ GdIdle /\ FacIdle /\ ScIdle /\ FnIdle
SpecToc == TocInit /\ [][TocStep]_vars

WinRunInit == GdStart /\ CursorIdle /\ XlIdle /\ FacIdle /\ TocIdle /\ ScIdle /\ FnIdle
SpecWinRun == WinRunInit /\ [][GetDataRunStep]_vars

SidecarInit == ScStart /\ CursorIdle /\ XlIdle /\ GdIdle /\ FacIdle /\ TocIdle /\ FnIdle
SpecSidecar == SidecarInit /\ [][SidecarStep]_vars

CallerInit == CallerStart /\ CursorIdle /\ XlIdle /\ GdIdle /\ TocIdle /\ ScIdle /\ FnIdle
SpecCaller == CallerInit /\ [][CallerStep]_vars

HexInit == HexStart /\ CursorIdle /\ XlIdle /\ GdIdle /\ FacIdle /\ TocIdle /\ ScIdle
SpecHex == HexInit /\ [][HexApply]_vars

PropsInit == PropsStart /\ CursorIdle /\ XlIdle /\ GdIdle /\ FacIdle /\ TocIdle /\ ScIdle
SpecProps == PropsInit /\ [][PropsStep]_vars

DtypeInit == DtypeStart /\ CursorIdle /\ XlIdle /\ GdIdle /\ FacIdle /\ TocIdle /\ ScIdle
SpecDtype == DtypeInit /\ [][DtypeApply]_vars

ValueInit == ValueStart /\ CursorIdle /\ XlIdle /\ GdIdle /\ FacIdle /\ TocIdle /\ ScIdle
SpecValue == ValueInit /\ [][ValueApply]_vars

IndexInit == IndexStart /\ CursorIdle /\ XlIdle /\ GdIdle /\ FacIdle /\ TocIdle /\ ScIdle
SpecIndex == IndexInit /\ [][IndexStep]_vars
====
